---- MODULE Spec2Model ----
(***************************************************************************)
(* The error chain of khicago/irr: the BasicIrr node, its constructors and *)
(* mutators, the two walks (TraverseToRoot over errors.Unwrap,             *)
(* TraverseToSource over the *BasicIrr links), the code readers built on   *)
(* them and the renderer ToString.                                         *)
(*                                                                         *)
(* Errors live in `heap`, a sequence of records; an error value is the     *)
(* index of its record and NoErr is Go's nil.  A record of kind "BasicIrr" *)
(* is an Error Node; a record of kind "foreign" is any other error type,   *)
(* described by the methods it has (Unwrap, CurrentCode or GetCode).       *)
(* `last` is the call the program made last and what it returned.          *)
(* `setLog` is a history variable: the argument of the latest SetCode call *)
(* on each node.  `tagLog` is a history variable: for each node and key,   *)
(* the values the SetTag calls passed, in call order.  `held` is the       *)
(* slices that callers hold from GetTag.  `gs` is the goroutines that call *)
(* methods of one node at the same time, each with its program counter and *)
(* locals, and `mu` is the holder of that node's mutex.                    *)
(*                                                                         *)
(* `globalMetrics` is the process-wide counters of metrics.go that SetCode  *)
(* adds to.  No operation of the chain reads them, and they are followed   *)
(* where goroutines call SetCode; the sequential calls, whose results do   *)
(* not depend on them, leave them out, as they do recordTraverseOp.        *)
(* `deferStack` is the functions that are running with a deferred call     *)
(* that reaches CatchFailure, innermost last, and the panic that is        *)
(* unwinding them, if any.                                                 *)
(*                                                                         *)
(* `mapHeap` is the memory behind ir.tags of the node the goroutines       *)
(* share, followed where the steps of SetTag, GetTag and writeSelfTo are   *)
(* taken map access by map access: the map[string][]string objects that    *)
(* SetTag has made, the object ir.tags points to (0 is nil), and, as a     *)
(* history, the objects ir.tags has pointed to and the tag states that the *)
(* SetTag calls have produced by their Store, in the order of it.  The     *)
(* tags field of the node in `heap` is the content of the object ir.tags   *)
(* points to.                                                              *)
(***************************************************************************)
EXTENDS Integers, Sequences, FiniteSets

VARIABLES heap, last, setLog, tagLog, held, gs, mu, globalMetrics, deferStack, mapHeap

vars == <<heap, last, setLog, tagLog, held, gs, mu, globalMetrics, deferStack, mapHeap>>

(* ------------------------------ bounds -------------------------------- *)

\* goroutines that use one node at the same time
MaxGoroutines == 2

\* slices from GetTag that callers hold on to
MaxHeld == 2

\* errors (Error Nodes and foreign errors) a run allocates
MaxNodes == 4

\* tag values a run stores, over all nodes
MaxTags == 2

\* links of a chain that carries tags or traces
MaxRenderNodes == 3

\* error codes passed to SetCode / ErrorC
Codes == {0, 7, 9}

\* the code a foreign error with a code reader reports
ForeignCodes == {0, 5}

\* separators passed to ToString
Splits == {"; "}

\* keys and values passed to SetTag
TagKeys == {"k", "t"}

TagVals == {"a"}

\* the frames generateStackTrace captures at the call sites of a run
Frames == {[FuncName |-> "main.f", FileName |-> "main.go", Line |-> 10]}

\* message of the k-th error a run allocates
MsgArg(k) ==
  CASE k = 1 -> "root"
    [] k = 2 -> "mid"
    [] k = 3 -> "top"
    [] OTHER -> "outer"

(* --------------------------- the error value --------------------------- *)

NoErr == 0

NoTrace == [FuncName |-> "", FileName |-> "", Line |-> -1]

NoTags == <<>>

Nodes == 1..Len(heap)

\* &BasicIrr{} with Msg set: every other field has Go's zero value
newBasicIrr(formatOrMsg) ==
  [kind |-> "BasicIrr", inner |-> NoErr, Code |-> 0, codeSet |-> FALSE,
   Msg |-> formatOrMsg, Trace |-> NoTrace, tags |-> NoTags,
   hasUnwrap |-> TRUE, codeCap |-> "CurrentCode"]

\* an error of another type: its Error() text, what its Unwrap returns (when
\* it has the method) and what its code reader returns (when it has one)
foreignErr(text, hasUnwrap, inner, codeCap, code) ==
  [kind |-> "foreign", inner |-> inner, Code |-> code, codeSet |-> FALSE,
   Msg |-> text, Trace |-> NoTrace, tags |-> NoTags,
   hasUnwrap |-> hasUnwrap, codeCap |-> codeCap]

IsBasicIrr(e) == e # NoErr /\ heap[e].kind = "BasicIrr"

\* ir.inner
Unwrap(ir) == heap[ir].inner

\* errors.Unwrap replaced by a type assertion to *BasicIrr
errorsUnwrap_onlyBasicIrr(err) ==
  IF heap[err].kind = "BasicIrr" THEN heap[err].inner ELSE NoErr

\* errors.Unwrap: the result of err's Unwrap method, nil when it has none
errorsUnwrap(err) ==
  IF heap[err].hasUnwrap THEN heap[err].inner ELSE NoErr

(* ------------------------------- Root ---------------------------------- *)

RECURSIVE Root(_)
Root(ir) ==
  LET inner == errorsUnwrap(ir)
  IN  IF inner = NoErr THEN ir ELSE Root(inner)

(* --------------------------- visit callbacks --------------------------- *)

\* A visit callback is a function from the link it is called on to what the
\* call does: it returns an error value (Nil for nil) or it panics with a
\* payload, which is an error value or a value of another type.
Nil == [err |-> "nil"]

ErrVal(name) == [err |-> name]

StrVal(text) == [str |-> text]

Ret(e) == [act |-> "return", val |-> e]

Panic(r) == [act |-> "panic", val |-> r]

\* r.(error)
IsErrorValue(r) == "err" \in DOMAIN r

\* fmt.Sprintf("%v", r)
Sprint(r) == IF IsErrorValue(r) THEN r.err ELSE r.str

\* Wrap(ErrUntypedExecutionFailure, "panic = %v", r): a fresh Error Node whose
\* inner is the sentinel
WrapUntyped(r) ==
  [err |-> "BasicIrr", inner |-> "ErrUntypedExecutionFailure",
   Msg |-> "panic = " \o Sprint(r)]

\* only a payload that is an error is recovered: any other panic goes on to
\* the caller of the traversal
recoverTraverse_errorOnly(run) ==
  IF ~run.panicked THEN run.err
  ELSE IF IsErrorValue(run.r) THEN run.r
  ELSE Panic(run.r)

\* the deferred func of both traversals: recover() and the named result err
recoverTraverse(run) ==
  IF ~run.panicked THEN run.err
  ELSE IF IsErrorValue(run.r) THEN run.r
  ELSE WrapUntyped(run.r)

\* a traversal before its first call
NewRun == [calls |-> <<>>, rets |-> <<>>, err |-> Nil, panicked |-> FALSE, r |-> Nil]

\* fn(...) is called with `args`, and does `out`
Called(run, args, out) ==
  [calls |-> Append(run.calls, args),
   rets |-> Append(run.rets, out),
   err |-> IF out.act = "return" THEN out.val ELSE run.err,
   panicked |-> out.act = "panic",
   r |-> IF out.act = "panic" THEN out.val ELSE run.r]

(* --------------------------- TraverseToRoot ---------------------------- *)

\* the walk ends at the first value that is not an Error Node
RECURSIVE TraverseToRootLoop_stopAtForeign(_, _, _)
TraverseToRootLoop_stopAtForeign(inner, fn, run) ==
  IF inner = NoErr THEN run
  ELSE LET run1 == Called(run, inner, fn[inner])
       IN  IF run1.panicked THEN run1
           ELSE IF run1.err # Nil THEN run1
           ELSE IF ~IsBasicIrr(inner) THEN run1
           ELSE TraverseToRootLoop_stopAtForeign(errorsUnwrap(inner), fn, run1)

\* the walk goes on after fn has returned an error
RECURSIVE TraverseToRootLoop_noBreak(_, _, _)
TraverseToRootLoop_noBreak(inner, fn, run) ==
  IF inner = NoErr THEN run
  ELSE LET run1 == Called(run, inner, fn[inner])
       IN  IF run1.panicked THEN run1
           ELSE TraverseToRootLoop_noBreak(errorsUnwrap(inner), fn, run1)

\* for inner := error(ir); inner != nil; inner = errors.Unwrap(inner)
RECURSIVE TraverseToRootLoop(_, _, _)
TraverseToRootLoop(inner, fn, run) ==
  IF inner = NoErr THEN run
  ELSE LET run1 == Called(run, inner, fn[inner])
       IN  IF run1.panicked THEN run1
           ELSE IF run1.err # Nil THEN run1
           ELSE TraverseToRootLoop(errorsUnwrap(inner), fn, run1)

TraverseToRoot(ir, fn) ==
  LET run == TraverseToRootLoop(ir, fn, NewRun)
  IN  [calls |-> run.calls, rets |-> run.rets, err |-> recoverTraverse(run)]

(* -------------------------- TraverseToSource --------------------------- *)

\* the first error fn returns is kept as the result, and the walk goes on
RECURSIVE TraverseToSourceLoop_keepFirstErr(_, _, _)
TraverseToSourceLoop_keepFirstErr(cur, fn, run) ==
  LET Keep(old, new) == IF old.err # Nil /\ ~new.panicked
                          THEN [new EXCEPT !.err = old.err] ELSE new
      isCurSource == heap[cur].inner = NoErr
      run1 == Keep(run, Called(run, <<cur, isCurSource>>, fn[cur]))
  IN  IF run1.panicked THEN run1
      ELSE IF isCurSource THEN run1
      ELSE IF IsBasicIrr(heap[cur].inner)
             THEN TraverseToSourceLoop_keepFirstErr(heap[cur].inner, fn, run1)
      ELSE Keep(run1, Called(run1, <<heap[cur].inner, TRUE>>, fn[heap[cur].inner]))

\* an Error Node whose inner is a foreign error is itself the source
RECURSIVE TraverseToSourceLoop_foreignInnerIsSource(_, _, _)
TraverseToSourceLoop_foreignInnerIsSource(cur, fn, run) ==
  LET isCurSource == heap[cur].inner = NoErr \/ ~IsBasicIrr(heap[cur].inner)
      run1 == Called(run, <<cur, isCurSource>>, fn[cur])
  IN  IF run1.panicked THEN run1
      ELSE IF heap[cur].inner = NoErr THEN run1
      ELSE IF IsBasicIrr(heap[cur].inner)
             THEN TraverseToSourceLoop_foreignInnerIsSource(heap[cur].inner, fn, run1)
      ELSE Called(run1, <<heap[cur].inner, TRUE>>, fn[heap[cur].inner])

\* the walk ends as soon as fn has returned an error, on any link
RECURSIVE TraverseToSourceLoop_breakOnErr(_, _, _)
TraverseToSourceLoop_breakOnErr(cur, fn, run) ==
  LET isCurSource == heap[cur].inner = NoErr
      run1 == Called(run, <<cur, isCurSource>>, fn[cur])
  IN  IF run1.panicked THEN run1
      ELSE IF run1.err # Nil THEN run1
      ELSE IF isCurSource THEN run1
      ELSE IF IsBasicIrr(heap[cur].inner)
             THEN TraverseToSourceLoop_breakOnErr(heap[cur].inner, fn, run1)
      ELSE Called(run1, <<heap[cur].inner, TRUE>>, fn[heap[cur].inner])

\* the walk ends at a foreign inner without a call of fn on it
RECURSIVE TraverseToSourceLoop_noForeignVisit(_, _, _)
TraverseToSourceLoop_noForeignVisit(cur, fn, run) ==
  LET isCurSource == heap[cur].inner = NoErr
      run1 == Called(run, <<cur, isCurSource>>, fn[cur])
  IN  IF run1.panicked THEN run1
      ELSE IF isCurSource THEN run1
      ELSE IF IsBasicIrr(heap[cur].inner)
             THEN TraverseToSourceLoop_noForeignVisit(heap[cur].inner, fn, run1)
      ELSE run1

\* for cur := ir; cur != nil; { ... }
RECURSIVE TraverseToSourceLoop(_, _, _)
TraverseToSourceLoop(cur, fn, run) ==
  LET isCurSource == heap[cur].inner = NoErr
      run1 == Called(run, <<cur, isCurSource>>, fn[cur])
  IN  IF run1.panicked THEN run1
      ELSE IF isCurSource THEN run1
      ELSE IF IsBasicIrr(heap[cur].inner)
             THEN TraverseToSourceLoop(heap[cur].inner, fn, run1)
      ELSE Called(run1, <<heap[cur].inner, TRUE>>, fn[heap[cur].inner])

TraverseToSource(ir, fn) ==
  LET run == TraverseToSourceLoop(ir, fn, NewRun)
  IN  [calls |-> run.calls, rets |-> run.rets, err |-> recoverTraverse(run)]

\* a callback that returns nil on every link
ReturnNil == [l \in Nodes |-> Ret(Nil)]

(* ------------------------------- Source -------------------------------- *)

\* the callback of Source: if isSource { err = e }
RECURSIVE SourceVisit(_, _)
SourceVisit(calls, err) ==
  IF calls = <<>> THEN err
  ELSE SourceVisit(Tail(calls), IF Head(calls)[2] THEN Head(calls)[1] ELSE err)

Source(ir) == SourceVisit(TraverseToSource(ir, ReturnNil).calls, NoErr)

(* ------------------------------ rendering ------------------------------ *)

Digit(d) ==
  CASE d = 0 -> "0" [] d = 1 -> "1" [] d = 2 -> "2" [] d = 3 -> "3"
    [] d = 4 -> "4" [] d = 5 -> "5" [] d = 6 -> "6" [] d = 7 -> "7"
    [] d = 8 -> "8" [] OTHER -> "9"

\* the decimal text of an integer: fmt's %d and strconv.Itoa
RECURSIVE Itoa(_)
Itoa(i) ==
  IF i < 0 THEN "-" \o Itoa(-i)
  ELSE IF i < 10 THEN Digit(i)
  ELSE Itoa(i \div 10) \o Digit(i % 10)

GetCodeStr(ir) ==
  IF heap[ir].Code = 0 THEN ""
  ELSE "code(" \o Itoa(heap[ir].Code) \o "), "

\* traceInfo.writeTo
traceWriteTo(sb, t) ==
  sb \o t.FuncName \o "@" \o t.FileName \o ":" \o Itoa(t.Line)

\* for _, value := range values
RECURSIVE writeTagValues(_, _, _)
writeTagValues(sb, key, values) ==
  IF values = <<>> THEN sb
  ELSE writeTagValues(sb \o "[" \o key \o ":" \o Head(values) \o "] ",
                      key, Tail(values))

\* for key, values := range *tagMap, which visits the keys in the order `keys`
RECURSIVE writeTags(_, _, _)
writeTags(sb, tagMap, keys) ==
  IF keys = <<>> THEN sb
  ELSE writeTags(writeTagValues(sb, Head(keys), tagMap[Head(keys)]),
                 tagMap, Tail(keys))

\* no de-duplication: the code is written whenever it is not 0
writeSelfTo_alwaysCode(sb, ir, printTrace, printCode, keys) ==
  LET sb1 == sb \o GetCodeStr(ir) \o heap[ir].Msg
      sb2 == writeTags(sb1, heap[ir].tags, keys)
  IN  IF printTrace /\ heap[ir].Trace # NoTrace
        THEN traceWriteTo(sb2 \o " ", heap[ir].Trace)
        ELSE sb2

\* `keys` is the order in which Go's map iteration yields the node's tag keys
writeSelfTo(sb, ir, printTrace, printCode, keys) ==
  LET sb1 == IF printCode /\ GetCodeStr(ir) # "" THEN sb \o GetCodeStr(ir) ELSE sb
      sb2 == sb1 \o heap[ir].Msg
      sb3 == writeTags(sb2, heap[ir].tags, keys)
  IN  IF printTrace /\ heap[ir].Trace # NoTrace
        THEN traceWriteTo(sb3 \o " ", heap[ir].Trace)
        ELSE sb3

\* the separator is written after every link, the source included
RECURSIVE ToStringVisit_trailingSplit(_, _, _, _, _)
ToStringVisit_trailingSplit(calls, st, printTrace, split, order) ==
  IF calls = <<>> THEN st
  ELSE LET err == Head(calls)[1]
           st1 == IF IsBasicIrr(err)
                    THEN [sb |-> writeSelfTo(st.sb, err, printTrace,
                                   st.lastCode # heap[err].Code, order[err]) \o split,
                          lastCode |-> heap[err].Code]
                    ELSE [sb |-> st.sb \o heap[err].Msg \o split, lastCode |-> st.lastCode]
       IN  ToStringVisit_trailingSplit(Tail(calls), st1, printTrace, split, order)

\* the callback of ToString, applied to the calls TraverseToSource makes
RECURSIVE ToStringVisit(_, _, _, _, _)
ToStringVisit(calls, st, printTrace, split, order) ==
  IF calls = <<>> THEN st
  ELSE LET err == Head(calls)[1]
           isSource == Head(calls)[2]
           st1 == IF IsBasicIrr(err)
                    THEN [sb |-> writeSelfTo(st.sb, err, printTrace,
                                             st.lastCode # heap[err].Code, order[err]),
                          lastCode |-> heap[err].Code]
                    ELSE [sb |-> st.sb \o heap[err].Msg, lastCode |-> st.lastCode]
           st2 == IF ~isSource THEN [st1 EXCEPT !.sb = @ \o split] ELSE st1
       IN  ToStringVisit(Tail(calls), st2, printTrace, split, order)

\* `order` gives, for each node, the order its tag keys are iterated in
ToString(ir, printTrace, split, order) ==
  ToStringVisit(TraverseToSource(ir, ReturnNil).calls,
                [sb |-> "", lastCode |-> 0], printTrace, split, order).sb

\* func (ir *BasicIrr) Error() string
IrrError(ir, order) == ToString(ir, FALSE, ", ", order)

(* -------------------------------- codes -------------------------------- *)

CurrentCode(ir) == heap[ir].Code

HasCurrentCode(ir) == heap[ir].codeSet

\* only the CurrentCode() method is tried
linkCode_currentCodeOnly(err) ==
  IF heap[err].codeCap = "CurrentCode" THEN heap[err].Code ELSE 0

\* the code TraverseCode's callback reads from a link: CurrentCode() when the
\* link has that method, else GetCode() when it has that one, else 0
linkCode(err) ==
  IF heap[err].codeCap = "CurrentCode" THEN heap[err].Code
  ELSE IF heap[err].codeCap = "GetCode" THEN heap[err].Code
  ELSE 0

\* every code a link can report
AllCodes == Codes \cup ForeignCodes

\* fn is called with (err, code)
TraverseCode(ir, fn) ==
  LET run == TraverseToRoot(ir, [err \in Nodes |-> fn[<<err, linkCode(err)>>]])
  IN  [calls |-> [i \in DOMAIN run.calls |-> <<run.calls[i], linkCode(run.calls[i])>>],
       rets |-> run.rets, err |-> run.err]

eExit == ErrVal("stop")

\* the callback of NearestCode: if code != 0 { val = code; return eExit }
RECURSIVE NearestCodeVisit(_, _)
NearestCodeVisit(calls, val) ==
  IF calls = <<>> THEN val
  ELSE NearestCodeVisit(Tail(calls),
                        IF Head(calls)[2] # 0 THEN Head(calls)[2] ELSE val)

\* the callback never returns eExit, so the walk goes on to the root
NearestCodeRun_noStop(ir) ==
  TraverseCode(ir, [p \in Nodes \X AllCodes |-> Ret(Nil)])

\* the callback returns errors.New("stop") made anew, not the eExit that
\* NearestCode compares the result with
NearestCodeRun_freshSentinel(ir) ==
  TraverseCode(ir, [p \in Nodes \X AllCodes |->
                      IF p[2] # 0 THEN Ret(ErrVal("stop (another)")) ELSE Ret(Nil)])

NearestCodeRun(ir) ==
  TraverseCode(ir, [p \in Nodes \X AllCodes |->
                      IF p[2] # 0 THEN Ret(eExit) ELSE Ret(Nil)])

\* err != nil && err != eExit: the branch that panics
NearestCodePanics(ir) ==
  NearestCodeRun(ir).err # Nil /\ NearestCodeRun(ir).err # eExit

NearestCode(ir) == NearestCodeVisit(NearestCodeRun(ir).calls, 0)

\* the receiver's own code, whatever the links below it hold
GetCode_currentCode(ir) == CurrentCode(ir)

\* GetCode, and ClosestCode: return ir.NearestCode()
GetCode(ir) == NearestCode(ir)

\* the code of the first link that has one, instead of the terminal link's
RootCode_nearest(ir) == NearestCodeVisit(NearestCodeRun(ir).calls, 0)

\* rootErr is what the callback keeps, as in Source
RootCode(ir) ==
  LET rootErr == SourceVisit(TraverseToSource(ir, ReturnNil).calls, NoErr)
  IN  IF rootErr = NoErr THEN 0
      ELSE IF IsBasicIrr(rootErr) THEN heap[rootErr].Code
      ELSE IF heap[rootErr].codeCap = "CurrentCode" THEN heap[rootErr].Code
      ELSE IF heap[rootErr].codeCap = "GetCode" THEN heap[rootErr].Code
      ELSE 0

\* "any code" read as "any explicitly set code"
HasAnyCode_explicit(ir) ==
  \E i \in DOMAIN NearestCodeRun_noStop(ir).calls :
     heap[NearestCodeRun_noStop(ir).calls[i][1]].codeSet

HasAnyCode(ir) == NearestCode(ir) # 0

(* ------------------------------- state --------------------------------- *)

NotCalled == [called |-> FALSE, val |-> 0]

Goroutines == 1..MaxGoroutines

\* a goroutine that is not inside a method
Idle == [pc |-> "idle"]

\* sync.RWMutex with no holder
Unlocked == 0

\* a map[int64]int64 with no key
NoStats == [c \in {} |-> 0]

\* globalMetrics as declared, and as ResetMetrics leaves it: the counter of
\* SetCode calls with a code, the calls per code, and the holder of the
\* mutex of that map
ResetMetrics == [ErrorWithCode |-> 0, CodeStats |-> NoStats, codeStatsMutex |-> Unlocked]

\* no function is running and nothing panics
NoFrames == [frames |-> <<>>, panicking |-> FALSE, r |-> [err |-> "nil"]]

\* ir.tags of the node the goroutines share is nil and no map has been made
NoMaps == [tags |-> 0, maps |-> <<>>, published |-> {}, states |-> <<NoTags>>]

\* the part of the state only the sequential tag calls, the goroutines and
\* the functions that defer CatchFailure change
tagCallers == <<held, gs, mu, globalMetrics, deferStack, mapHeap>>

Init ==
  /\ heap = <<>>
  /\ last = [op |-> "init"]
  /\ setLog = <<>>
  /\ tagLog = <<>>
  /\ held = <<>>
  /\ gs = [g \in Goroutines |-> Idle]
  /\ mu = Unlocked
  /\ globalMetrics = ResetMetrics
  /\ deferStack = NoFrames
  /\ mapHeap = NoMaps

\* some link carries a tag or a trace
Decorated == \E e \in Nodes : heap[e].tags # NoTags \/ heap[e].Trace # NoTrace

\* the error a constructor call leaves in the heap, returned to the caller
Alloc(op, node) ==
  /\ Len(heap) < MaxNodes
  /\ (Decorated \/ node.Trace # NoTrace) => Len(heap) < MaxRenderNodes
  /\ heap' = Append(heap, node)
  /\ setLog' = Append(setLog, IF node.codeSet THEN [called |-> TRUE, val |-> node.Code]
                                              ELSE NotCalled)
  /\ tagLog' = Append(tagLog, NoTags)
  /\ last' = [op |-> op, ret |-> Len(heap) + 1]
  /\ UNCHANGED tagCallers

\* The model follows one chain: a constructor that takes no inner error
\* starts it, and a constructor that takes one is handed the outermost link
\* built so far.  The readers and traversals are called on the outermost
\* link: a call on an inner link reads only the links below it, and that
\* suffix was the whole chain, with the same fields, in an earlier state.
StartsChain == heap = <<>>

InnerArgs == IF heap = <<>> THEN {} ELSE {Len(heap)}

Receivers == {ir \in {Len(heap)} : IsBasicIrr(ir)}

\* a zero code treated as "no code"
setCode_zeroIsUnset(node, val) == [node EXCEPT !.Code = val, !.codeSet = (val # 0)]

\* ir.Code = val; ir.codeSet = true
setCode(node, val) == [node EXCEPT !.Code = val, !.codeSet = TRUE]

(* ---------------------------- constructors ----------------------------- *)

Error ==
  /\ StartsChain
  /\ Alloc("Error", newBasicIrr(MsgArg(Len(heap) + 1)))

ErrorC(code) ==
  /\ StartsChain
  /\ Alloc("ErrorC", setCode(newBasicIrr(MsgArg(Len(heap) + 1)), code))

\* err.inner = err: the new node is its own inner error
Wrap_selfInner(innerErr) ==
  Alloc("Wrap", [newBasicIrr(MsgArg(Len(heap) + 1)) EXCEPT !.inner = Len(heap) + 1])

Wrap(innerErr) ==
  Alloc("Wrap", [newBasicIrr(MsgArg(Len(heap) + 1)) EXCEPT !.inner = innerErr])

\* innerErr.(IRR): the model's foreign errors do not implement IRR
IsIRR(e) == IsBasicIrr(e)

\* a call site: the function (its import path, as path elements), the file
\* and the line of a call
CallSites ==
  {[fn |-> <<"github.com", "khicago", "irr.TestTrack">>, file |-> "irr_test.go", line |-> 40],
   [fn |-> <<"github.com", "khicago", "irr.TestTrack">>, file |-> "irr_test.go", line |-> 41],
   [fn |-> <<"github.com", "khicago", "irr.TestTrack.func1">>, file |-> "irr_test.go", line |-> 40],
   [fn |-> <<"example.com", "irr.TestTrack">>, file |-> "other_test.go", line |-> 40]}

\* path.Base of a slash-separated path
pathBase(elems) == elems[Len(elems)]

\* the frame of the caller `skip` levels up, which is at call site `site`
generateStackTrace(site) ==
  [FuncName |-> pathBase(site.fn), FileName |-> site.file, Line |-> site.line]

\* the frames are compared as pointers, which are never equal
createTraceInfo_comparePointers(t, innerErr) == t

\* the frames are compared without their lines
createTraceInfo_ignoreLine(t, innerErr) ==
  IF innerErr = NoErr THEN t
  ELSE IF \/ ~IsIRR(innerErr) \/ heap[innerErr].Trace = NoTrace
          \/ heap[innerErr].Trace.FuncName # t.FuncName
          \/ heap[innerErr].Trace.FileName # t.FileName
         THEN t
  ELSE NoTrace

\* t is the frame generateStackTrace(1 + skip) captures
createTraceInfo(t, innerErr) ==
  IF innerErr = NoErr THEN t
  ELSE IF ~IsIRR(innerErr) \/ heap[innerErr].Trace = NoTrace \/ heap[innerErr].Trace # t
         THEN t
  ELSE NoTrace

\* TraceSkip and Trace, which is TraceSkip(1, ...); t is the caller's frame
TraceSkip(t) ==
  /\ StartsChain
  /\ Alloc("TraceSkip", [newBasicIrr(MsgArg(Len(heap) + 1)) EXCEPT
                           !.Trace = createTraceInfo(t, NoErr)])

\* TrackSkip and Track, which is TrackSkip(1, ...); t is the caller's frame
TrackSkip(innerErr, t) ==
  Alloc("TrackSkip", [newBasicIrr(MsgArg(Len(heap) + 1)) EXCEPT
                        !.inner = innerErr, !.Trace = createTraceInfo(t, innerErr)])

\* a method of irc.Code: the constructor of the same name, then
\* .SetCode(c.I64()) on what it returns
Spawn(method, c, node) ==
  /\ Len(heap) < MaxNodes
  /\ (Decorated \/ node.Trace # NoTrace) => Len(heap) < MaxRenderNodes
  /\ heap' = Append(heap, setCode(node, c))
  /\ setLog' = Append(setLog, [called |-> TRUE, val |-> c])
  /\ tagLog' = Append(tagLog, NoTags)
  /\ last' = [op |-> method, c |-> c, ret |-> Len(heap) + 1]
  /\ UNCHANGED tagCallers

Code_Error(c) ==
  /\ StartsChain
  /\ Spawn("Code.Error", c, newBasicIrr(MsgArg(Len(heap) + 1)))

Code_Wrap(c, innerErr) ==
  Spawn("Code.Wrap", c, [newBasicIrr(MsgArg(Len(heap) + 1)) EXCEPT !.inner = innerErr])

Code_TraceSkip(c, t) ==
  /\ StartsChain
  /\ Spawn("Code.TraceSkip", c, [newBasicIrr(MsgArg(Len(heap) + 1)) EXCEPT
                                   !.Trace = createTraceInfo(t, NoErr)])

\* irr.Trace is TraceSkip(1, ...); t is the frame it captures
Code_Trace(c, t) ==
  /\ StartsChain
  /\ Spawn("Code.Trace", c, [newBasicIrr(MsgArg(Len(heap) + 1)) EXCEPT
                               !.Trace = createTraceInfo(t, NoErr)])

Code_TrackSkip(c, innerErr, t) ==
  Spawn("Code.TrackSkip", c,
        [newBasicIrr(MsgArg(Len(heap) + 1)) EXCEPT
           !.inner = innerErr, !.Trace = createTraceInfo(t, innerErr)])

\* irr.Track is TrackSkip(1, ...); t is the frame it captures
Code_Track(c, innerErr, t) ==
  Spawn("Code.Track", c,
        [newBasicIrr(MsgArg(Len(heap) + 1)) EXCEPT
           !.inner = innerErr, !.Trace = createTraceInfo(t, innerErr)])

\* errors.New(text), or a value of a type with a code reader
ForeignNew(codeCap, code) ==
  /\ StartsChain
  /\ Alloc("ForeignNew", foreignErr(MsgArg(Len(heap) + 1), FALSE, NoErr, codeCap, code))

\* fmt.Errorf("... %w", innerErr), or any other type with an Unwrap method
ForeignWrap(innerErr, codeCap, code) ==
  Alloc("ForeignWrap",
        foreignErr(MsgArg(Len(heap) + 1) \o " => " \o heap[innerErr].Msg,
                   TRUE, innerErr, codeCap, code))

\* what a foreign type lets the library read: no code reader, CurrentCode()
\* or GetCode(), and the code it holds
ForeignCaps == {<<"none", 5>>, <<"CurrentCode", 5>>, <<"GetCode", 5>>}

(* ------------------------------ mutators ------------------------------- *)

SetCode(ir, val) ==
  /\ IsBasicIrr(ir)
  /\ heap' = [heap EXCEPT ![ir] = setCode(@, val)]
  /\ setLog' = [setLog EXCEPT ![ir] = [called |-> TRUE, val |-> val]]
  /\ last' = [op |-> "SetCode", ir |-> ir, val |-> val, ret |-> ir]
  /\ UNCHANGED <<tagLog, tagCallers>>

\* the number of values in a tag map
RECURSIVE tagCount(_, _)
tagCount(tagMap, keys) ==
  IF keys = {} THEN 0
  ELSE LET k == CHOOSE x \in keys : TRUE
       IN  Len(tagMap[k]) + tagCount(tagMap, keys \ {k})

RECURSIVE TagsStored(_)
TagsStored(n) ==
  IF n = 0 THEN 0
  ELSE tagCount(heap[n].tags, DOMAIN heap[n].tags) + TagsStored(n - 1)

\* newTags[key] = []string{val}: the values of key are replaced
setTag_replace(tagMap, key, val) ==
  [k \in DOMAIN tagMap \cup {key} |-> IF k = key THEN <<val>> ELSE tagMap[k]]

\* newTags holds the list of key only: the lists of the other keys are lost
setTag_dropOtherKeys(tagMap, key, val) ==
  [k \in {key} |-> Append(IF k \in DOMAIN tagMap THEN tagMap[k] ELSE <<>>, val)]

\* newTags: a copy of the current map, with val appended to the list of key
setTag(tagMap, key, val) ==
  [k \in DOMAIN tagMap \cup {key} |->
     IF k = key
       THEN Append(IF k \in DOMAIN tagMap THEN tagMap[k] ELSE <<>>, val)
       ELSE tagMap[k]]

\* the history of the calls: val is one more value passed with key
logTag(log, key, val) ==
  [k \in DOMAIN log \cup {key} |->
     (IF k \in DOMAIN log THEN log[k] ELSE <<>>) \o (IF k = key THEN <<val>> ELSE <<>>)]

SetTag(ir, key, val) ==
  /\ IsBasicIrr(ir)
  /\ TagsStored(Len(heap)) < MaxTags
  /\ Len(heap) <= MaxRenderNodes
  /\ heap' = [heap EXCEPT ![ir].tags = setTag(@, key, val)]
  /\ last' = [op |-> "SetTag", ir |-> ir, key |-> key, val |-> val]
  /\ tagLog' = [tagLog EXCEPT ![ir] = logTag(@, key, val)]
  /\ UNCHANGED <<setLog, tagCallers>>

(* -------------------------------- GetTag ------------------------------- *)

\* A slice is its elements, whether it is nil, and its backing array: "fresh"
\* for an array no other slice has, "stored" for the array of the slice that
\* the node's tag map holds for the key.
NilSlice == [isNil |-> TRUE, vals |-> <<>>, backing |-> "fresh"]

\* GetTag after tagMap := ir.tags.Load():
\* result := make([]string, len(values)); copy(result, values)
copyValues(tagMap, key) ==
  IF tagMap = NoTags THEN NilSlice
  ELSE IF key \notin DOMAIN tagMap THEN NilSlice
  ELSE LET values == tagMap[key]
       IN  [isNil |-> FALSE,
            vals |-> [i \in 1..Len(values) |-> values[i]],
            backing |-> "fresh"]

\* the stored slice itself is returned
GetTag_noCopy(ir, key) ==
  IF heap[ir].tags = NoTags THEN NilSlice
  ELSE IF key \notin DOMAIN heap[ir].tags THEN NilSlice
  ELSE [isNil |-> FALSE, vals |-> heap[ir].tags[key], backing |-> "stored"]

GetTag(ir, key) == copyValues(heap[ir].tags, key)

\* the caller reads the slice GetTag returns and lets go of it
CallGetTag(ir, key) ==
  /\ IsBasicIrr(ir)
  /\ last' = [op |-> "GetTag", ir |-> ir, key |-> key, ret |-> GetTag(ir, key)]
  /\ UNCHANGED <<heap, setLog, tagLog, tagCallers>>

\* the caller keeps the slice GetTag returns: tags1 := err.GetTag(key)
HoldGetTag(ir, key) ==
  /\ IsBasicIrr(ir)
  /\ Len(held) < MaxHeld
  /\ held' = Append(held, [ir |-> ir, key |-> key, slice |-> GetTag(ir, key)])
  /\ last' = [op |-> "GetTag", ir |-> ir, key |-> key, ret |-> GetTag(ir, key)]
  /\ UNCHANGED <<heap, setLog, tagLog, gs, mu, globalMetrics, deferStack, mapHeap>>

\* two held slices have the same backing array
SameArray(h, j) ==
  \/ h = j
  \/ /\ held[h].slice.backing = "stored" /\ held[j].slice.backing = "stored"
     /\ held[h].ir = held[j].ir /\ held[h].key = held[j].key

\* the caller assigns to an element of a slice it holds: tags1[i] = val
WriteElem(h, i, val) ==
  /\ h \in DOMAIN held
  /\ i \in DOMAIN held[h].slice.vals
  /\ held[h].slice.vals[i] # val
  /\ held' = [j \in DOMAIN held |->
                IF SameArray(h, j) /\ i \in DOMAIN held[j].slice.vals
                  THEN [held[j] EXCEPT !.slice.vals[i] = val]
                  ELSE held[j]]
  /\ heap' = IF held[h].slice.backing = "stored"
               THEN [heap EXCEPT ![held[h].ir].tags[held[h].key][i] = val]
               ELSE heap
  /\ last' = [op |-> "WriteElem", h |-> h, i |-> i, val |-> val]
  /\ UNCHANGED <<setLog, tagLog, gs, mu, globalMetrics, deferStack, mapHeap>>

(* ------------------------------- readers ------------------------------- *)

\* a reader that clears the code it has read
Read_clearsCode(op, ir, ret) ==
  /\ last' = [op |-> op, ir |-> ir, ret |-> ret]
  /\ heap' = [heap EXCEPT ![ir].Code = 0]
  /\ UNCHANGED <<setLog, tagLog, tagCallers>>

Read(op, ir, ret) ==
  /\ last' = [op |-> op, ir |-> ir, ret |-> ret]
  /\ UNCHANGED <<heap, setLog, tagLog, tagCallers>>

CallRoot(ir) == Read("Root", ir, Root(ir))

CallUnwrap(ir) == Read("Unwrap", ir, Unwrap(ir))

CallSource(ir) == Read("Source", ir, Source(ir))

CallCurrentCode(ir) == Read("CurrentCode", ir, CurrentCode(ir))

CallHasCurrentCode(ir) == Read("HasCurrentCode", ir, HasCurrentCode(ir))

CallNearestCode(ir) ==
  /\ ~NearestCodePanics(ir)
  /\ Read("NearestCode", ir, NearestCode(ir))

CallRootCode(ir) == Read("RootCode", ir, RootCode(ir))

CallHasAnyCode(ir) ==
  /\ ~NearestCodePanics(ir)
  /\ Read("HasAnyCode", ir, HasAnyCode(ir))

\* the orders in which a range over a map with the keys S can yield them
KeySeqs(S) ==
  {seq \in [1..Cardinality(S) -> S] : \A i, j \in DOMAIN seq : i # j => seq[i] # seq[j]}

\* one iteration order for the tag map of each node
Orders ==
  {order \in [Nodes -> UNION {KeySeqs(DOMAIN heap[e].tags) : e \in Nodes}] :
     \A e \in Nodes : order[e] \in KeySeqs(DOMAIN heap[e].tags)}

CallToString(ir, printTrace, split, order) ==
  /\ last' = [op |-> "ToString", ir |-> ir, printTrace |-> printTrace, split |-> split,
              ret |-> ToString(ir, printTrace, split, order)]
  /\ UNCHANGED <<heap, setLog, tagLog, tagCallers>>

CallError(ir, order) == Read("BasicIrr.Error", ir, IrrError(ir, order))

(* ----------------------------- CatchFailure ---------------------------- *)

\* nested functions that defer CatchFailure
MaxDepth == 3

\* what a function body panics with: an error, or a value of another type
Payloads == {ErrVal("test error"), StrVal("test panic")}

\* recover(): the value of the panic when the goroutine is panicking and
\* recover was called directly by the deferred function, else nil; `direct`
\* says that CatchFailure itself is the deferred function
recover(panicking, r, direct) == IF panicking /\ direct THEN r ELSE Nil

\* set is not called when nothing panicked
CatchFailure_silentWithoutPanic(panicking, r, direct) ==
  LET rec == recover(panicking, r, direct)
  IN  IF rec = Nil THEN <<>>
      ELSE IF IsErrorValue(rec) THEN <<rec>>
      ELSE <<WrapUntyped(rec)>>

\* the values CatchFailure passes to set, in call order
CatchFailure(panicking, r, direct) ==
  LET rec == recover(panicking, r, direct)
  IN  IF rec = Nil THEN <<Nil>>
      ELSE IF IsErrorValue(rec) THEN <<rec>>
      ELSE <<WrapUntyped(rec)>>

\* a function is called that defers CatchFailure(set) itself (direct), or
\* defers a closure that calls CatchFailure(set)
EnterFunc(direct) ==
  /\ ~deferStack.panicking
  /\ Len(deferStack.frames) < MaxDepth
  /\ deferStack' = [deferStack EXCEPT !.frames = Append(@, direct)]
  /\ UNCHANGED <<last, heap, setLog, tagLog, held, gs, mu, globalMetrics, mapHeap>>

\* the body of the innermost function panics
PanicInBody(r) ==
  /\ ~deferStack.panicking
  /\ deferStack.frames # <<>>
  /\ deferStack' = [deferStack EXCEPT !.panicking = TRUE, !.r = r]
  /\ UNCHANGED <<last, heap, setLog, tagLog, held, gs, mu, globalMetrics, mapHeap>>

\* the innermost function ends, by return or by the panic, and its deferred
\* call runs; a panic that is not recovered goes on to the caller
RunDeferred ==
  /\ deferStack.frames # <<>>
  /\ LET n == Len(deferStack.frames)
         direct == deferStack.frames[n]
         recovered == deferStack.panicking /\ direct
     IN  /\ last' = [op |-> "CatchFailure", direct |-> direct,
                     panicked |-> deferStack.panicking, r |-> deferStack.r,
                     sets |-> CatchFailure(deferStack.panicking, deferStack.r, direct),
                     propagates |-> deferStack.panicking /\ ~recovered]
         /\ deferStack' = [frames |-> SubSeq(deferStack.frames, 1, n - 1),
                           panicking |-> deferStack.panicking /\ ~recovered,
                           r |-> IF recovered THEN Nil ELSE deferStack.r]
  /\ UNCHANGED <<heap, setLog, tagLog, held, gs, mu, globalMetrics, mapHeap>>

(* --------------------------- DumpToCodeNError -------------------------- *)

\* the codes a caller passes as succ and unknown
TestCodeSuccess == 0

TestCodeUnknown == 9999

\* the text fmt.Sprintf(msgOrFmt, args...) gives when msgOrFmt is not empty
\* and there are args; "" stands for every other call
AppendMsgs == {"", "request failed"}

\* what GetCodeStr() of a foreign type returns, when the type has the method
ForeignCodeStrs == {"", "code(5), "}

\* err.Error()
errError(err, order) == IF IsBasicIrr(err) THEN IrrError(err, order) ELSE heap[err].Msg

\* err.Error() of an Error Node from after its own code prefix: what ToString
\* writes when the first link's code is not printed
afterCodeStr(err, order) ==
  ToStringVisit(TraverseToSource(err, ReturnNil).calls,
                [sb |-> "", lastCode |-> heap[err].Code], FALSE, ", ", order).sb

\* len(errMsg) > lenCodeStr && errMsg[:lenCodeStr] == codeStr, and then
\* errMsg[lenCodeStr:]; rest is the text that follows codeStr if errMsg
\* begins with it
stripCodeStr(errMsg, codeStr, rest) ==
  IF rest # "" /\ errMsg = codeStr \o rest THEN rest ELSE errMsg

\* err.(interface{ NearestCode() int64 }) and err.(ICodeTraverse): of the
\* model's errors only the Error Nodes have these methods
HasNearestCode(err) == IsBasicIrr(err)

\* err.(ICodeGetter): a foreign type with GetCode() and GetCodeStr()
IsICodeGetter(err, hasGetCodeStr) == heap[err].codeCap = "GetCode" /\ hasGetCodeStr

\* a code of 0 read from err is replaced by `unknown`
DumpCode_unknownWhenZero(unknown, code) == IF code = 0 THEN unknown ELSE code

\* code = Code(codet.NearestCode()), and Code(codeg.GetCode())
DumpCode(unknown, code) == code

\* no message of a foreign error of the model begins with a code string, so
\* only "" can be stripped from it
DumpToCodeNError(succ, unknown, err, appendMsg, order, hasGetCodeStr, codeStr) ==
  IF err = NoErr THEN [code |-> succ, msg |-> ""]
  ELSE LET sb == IF appendMsg # "" THEN appendMsg \o ", " ELSE ""
           errMsg == errError(err, order)
       IN  IF HasNearestCode(err)
             THEN [code |-> DumpCode(unknown, NearestCode(err)),
                   msg |-> sb \o stripCodeStr(errMsg, GetCodeStr(err), afterCodeStr(err, order))]
           ELSE IF IsICodeGetter(err, hasGetCodeStr)
             THEN [code |-> DumpCode(unknown, heap[err].Code),
                   msg |-> sb \o stripCodeStr(errMsg, codeStr, IF codeStr = "" THEN errMsg ELSE "")]
           ELSE [code |-> unknown, msg |-> sb \o errMsg]

CallDumpToCodeNError(err, appendMsg, order, hasGetCodeStr, codeStr) ==
  /\ err # NoErr => ~NearestCodePanics(err)
  /\ last' = [op |-> "DumpToCodeNError", err |-> err, appendMsg |-> appendMsg,
              ret |-> DumpToCodeNError(TestCodeSuccess, TestCodeUnknown, err, appendMsg,
                                       order, hasGetCodeStr, codeStr)]
  /\ UNCHANGED <<heap, setLog, tagLog, tagCallers>>

(* ----------------------------- traversals ------------------------------ *)

previousErr == ErrVal("the previous error")

returnedErr == ErrVal("the returned error")

\* what the callback does on the link it fails on, and on the links after it
FailOutcomes == {Ret(previousErr), Panic(previousErr), Panic(StrVal("some error string"))}

RestOutcomes == {Ret(Nil), Ret(returnedErr)}

\* nil down to link l, `out` on l and `rest` on every link below it
FailAt(l, out, rest) ==
  [x \in Nodes |-> IF x = l THEN out ELSE IF x < l THEN rest ELSE Ret(Nil)]

VisitFns ==
  {ReturnNil} \cup {FailAt(l, out, rest) : l \in Nodes, out \in FailOutcomes, rest \in RestOutcomes}

Traversed(op, ir, run) ==
  /\ last' = [op |-> op, ir |-> ir, calls |-> run.calls, rets |-> run.rets, ret |-> run.err]
  /\ UNCHANGED <<heap, setLog, tagLog, tagCallers>>

CallTraverseToRoot(ir, fn) == Traversed("TraverseToRoot", ir, TraverseToRoot(ir, fn))

CallTraverseToSource(ir, fn) == Traversed("TraverseToSource", ir, TraverseToSource(ir, fn))

CallTraverseCode(ir, fn) ==
  Traversed("TraverseCode", ir,
            TraverseCode(ir, [p \in Nodes \X AllCodes |-> fn[p[1]]]))

(* --------------------------- specifications ---------------------------- *)

Build(codes, caps) ==
  \/ Error
  \/ \E code \in codes : ErrorC(code)
  \/ \E innerErr \in InnerArgs : Wrap(innerErr)
  \/ \E cap \in caps : ForeignNew(cap[1], cap[2])
  \/ \E innerErr \in InnerArgs, cap \in caps : ForeignWrap(innerErr, cap[1], cap[2])
  \/ \E ir \in Nodes, val \in codes : SetCode(ir, val)

\* the chain, its codes and the readers
Next ==
  \/ Build(Codes, ForeignCaps)
  \/ \E ir \in Receivers : CallRoot(ir)
  \/ \E ir \in Receivers : CallSource(ir)
  \/ \E ir \in Receivers : CallCurrentCode(ir)
  \/ \E ir \in Receivers : CallHasCurrentCode(ir)
  \/ \E ir \in Receivers : CallNearestCode(ir)
  \/ \E ir \in Receivers : CallRootCode(ir)
  \/ \E ir \in Receivers : CallHasAnyCode(ir)
  \/ \E ir \in Receivers, printTrace \in BOOLEAN, split \in Splits, order \in Orders :
       CallToString(ir, printTrace, split, order)
  \/ \E ir \in Receivers, order \in Orders : CallError(ir, order)

Spec == Init /\ [][Next]_vars

\* the codes and the foreign types of the chains that are traversed
TraverseCodes == {7}

TraverseCaps == {<<"none", 5>>, <<"GetCode", 5>>}

\* the chain and the traversals with a callback
NextTraverse ==
  \/ Build(TraverseCodes, TraverseCaps)
  \/ \E ir \in Receivers, fn \in VisitFns : CallTraverseToRoot(ir, fn)
  \/ \E ir \in Receivers, fn \in VisitFns : CallTraverseToSource(ir, fn)
  \/ \E ir \in Receivers, fn \in VisitFns : CallTraverseCode(ir, fn)

SpecTraverse == Init /\ [][NextTraverse]_vars

\* the values the tag calls pass
TagCallVals == {"a", "b"}

\* the tags of the nodes of a chain, set and read back
NextTags ==
  \/ Error
  \/ \E innerErr \in InnerArgs : Wrap(innerErr)
  \/ \E ir \in Nodes, key \in TagKeys, val \in TagCallVals : SetTag(ir, key, val)
  \/ \E ir \in Nodes, key \in TagKeys : CallGetTag(ir, key)

SpecTags == Init /\ [][NextTags]_vars

\* the value a caller writes into a slice it got from GetTag
Modified == "modified"

\* the tags of one node, and a caller that keeps and changes what GetTag
\* returns
NextCopy ==
  \/ Error
  \/ \E ir \in Nodes, key \in TagKeys, val \in TagVals : SetTag(ir, key, val)
  \/ \E ir \in Nodes, key \in TagKeys : HoldGetTag(ir, key)
  \/ \E h \in DOMAIN held, i \in 1..MaxTags : WriteElem(h, i, Modified)

SpecCopy == Init /\ [][NextCopy]_vars

RenderCodes == {7}

RenderCaps == {<<"none", 5>>}

(* ----------------------------- goroutines ------------------------------ *)

\* The goroutines call methods of one node, the first of the heap, one call
\* each.  A step of a goroutine is one access to the node's memory or one
\* operation of its mutex.  A read of a field that is written without
\* synchronisation may see the field's first value or any value written to
\* it so far.
TheNode == 1

\* fmt.Sprintf("value%d", index)
ValueOf(g) == "value" \o Itoa(g)

\* the calls goroutine g can make
Calls(g) ==
  {[op |-> "SetCode", val |-> val] : val \in RenderCodes}
    \cup {[op |-> op] : op \in {"CurrentCode", "HasCurrentCode", "NearestCode", "ToString"}}
    \cup {[op |-> "SetTag", key |-> key, val |-> ValueOf(g)] : key \in TagKeys}
    \cup {[op |-> "GetTag", key |-> key] : key \in TagKeys}

\* the first step of each method
FirstPc(op) ==
  CASE op = "SetCode" -> "val"
    [] op = "ErrorC" -> "newBasicIrr"
    [] op = "CurrentCode" -> "Code"
    [] op = "HasCurrentCode" -> "codeSet"
    [] op = "NearestCode" -> "Code"
    [] op = "ToString" -> "printCode"
    [] op = "SetTag" -> "Lock"
    [] op = "GetTag" -> "Load"

At(g, op, pc) == gs[g].pc = pc /\ gs[g].call.op = op

Running(g) == gs[g].pc \notin {"idle", "done"}

Goto(g, pc, loc) == gs' = [gs EXCEPT ![g] = [pc |-> pc, call |-> gs[g].call, loc |-> loc]]

Return(g, ret) == gs' = [gs EXCEPT ![g] = [pc |-> "done", call |-> gs[g].call, ret |-> ret]]

NoLocals == [none |-> TRUE]

\* go func() { err.Method(...) }()
GoCall(g, call) ==
  /\ Len(heap) = TheNode /\ IsBasicIrr(TheNode)
  /\ gs[g] = Idle
  /\ gs' = [gs EXCEPT ![g] = [pc |-> FirstPc(call.op), call |-> call, loc |-> NoLocals]]
  /\ UNCHANGED <<heap, last, setLog, tagLog, held, mu, globalMetrics, deferStack, mapHeap>>

\* the memory access the next step of g makes: the field, whether it is
\* written, and whether the access is an operation of sync/atomic
NoAccess == [field |-> "none", write |-> FALSE, atomic |-> TRUE]

Access(g) ==
  IF ~Running(g) THEN NoAccess
  ELSE LET op == gs[g].call.op
           pc == gs[g].pc
       IN  CASE pc = "AddInt64" -> [field |-> "ErrorWithCode", write |-> TRUE, atomic |-> TRUE]
             [] pc = "statsLoad" -> [field |-> "CodeStats", write |-> FALSE, atomic |-> FALSE]
             [] pc = "statsStore" -> [field |-> "CodeStats", write |-> TRUE, atomic |-> FALSE]
             [] op = "SetCode" /\ pc = "Code" -> [field |-> "Code", write |-> TRUE, atomic |-> FALSE]
             [] op = "SetCode" /\ pc = "codeSet" -> [field |-> "codeSet", write |-> TRUE, atomic |-> FALSE]
             [] op \in {"CurrentCode", "NearestCode"} -> [field |-> "Code", write |-> FALSE, atomic |-> FALSE]
             [] op = "HasCurrentCode" -> [field |-> "codeSet", write |-> FALSE, atomic |-> FALSE]
             [] op = "ToString" /\ pc \in {"printCode", "GetCodeStr", "lastCode"} ->
                  [field |-> "Code", write |-> FALSE, atomic |-> FALSE]
             [] op = "ToString" /\ pc = "tags" -> [field |-> "tags", write |-> FALSE, atomic |-> TRUE]
             [] op = "SetTag" /\ pc = "Load" -> [field |-> "tags", write |-> FALSE, atomic |-> TRUE]
             [] op = "SetTag" /\ pc = "Store" -> [field |-> "tags", write |-> TRUE, atomic |-> TRUE]
             [] op = "GetTag" /\ pc = "Load" -> [field |-> "tags", write |-> FALSE, atomic |-> TRUE]
             [] OTHER -> NoAccess

\* the values a read of ir.Code may see
VisibleCodes ==
  {0} \cup {gs[h].call.val : h \in {x \in Goroutines :
                                      /\ gs[x].pc \in {"codeSet", "done"}
                                      /\ gs[x].call.op = "SetCode"}}

\* the values a read of ir.codeSet may see
VisibleCodeSet ==
  {FALSE} \cup {TRUE : h \in {x \in Goroutines : gs[x].pc = "done" /\ gs[x].call.op = "SetCode"}}

\* inside SetCode, called directly or by ErrorC
InSetCode(g, pc) == gs[g].pc = pc /\ gs[g].call.op \in {"SetCode", "ErrorC"}

\* err := newBasicIrr(formatOrMsg, args...): a node no other goroutine has
ErrorC_newBasicIrr(g) ==
  /\ At(g, "ErrorC", "newBasicIrr")
  /\ Goto(g, "val", [err |-> newBasicIrr(MsgArg(g))])
  /\ UNCHANGED <<heap, last, setLog, tagLog, held, mu, globalMetrics, deferStack, mapHeap>>

\* if val != 0 { recordErrorWithCode(val) }
SetCode_val(g) ==
  /\ InSetCode(g, "val")
  /\ Goto(g, IF gs[g].call.val # 0 THEN "AddInt64" ELSE "Code", gs[g].loc)
  /\ UNCHANGED <<heap, last, setLog, tagLog, held, mu, globalMetrics, deferStack, mapHeap>>

\* atomic.AddInt64(&globalMetrics.ErrorWithCode, 1)
record_AddInt64(g) ==
  /\ InSetCode(g, "AddInt64")
  /\ globalMetrics' = [globalMetrics EXCEPT !.ErrorWithCode = @ + 1]
  /\ Goto(g, "statsLock", gs[g].loc)
  /\ UNCHANGED <<heap, last, setLog, tagLog, held, mu, deferStack, mapHeap>>

\* the mutex lets no goroutine wait
CanLockStats_noExclusion(g) == TRUE

\* codeStatsMutex.Lock() returns when no goroutine holds the mutex
CanLockStats(g) == globalMetrics.codeStatsMutex = Unlocked

\* globalMetrics.codeStatsMutex.Lock()
record_Lock(g) ==
  /\ InSetCode(g, "statsLock")
  /\ CanLockStats(g)
  /\ globalMetrics' = [globalMetrics EXCEPT !.codeStatsMutex = g]
  /\ Goto(g, "statsLoad", gs[g].loc)
  /\ UNCHANGED <<heap, last, setLog, tagLog, held, mu, deferStack, mapHeap>>

\* m[code] of a Go map: the zero value when the key is absent
mapIndex(m, code) == IF code \in DOMAIN m THEN m[code] ELSE 0

\* m[code] = count of a Go map
mapAssign(m, code, count) ==
  [c \in DOMAIN m \cup {code} |-> IF c = code THEN count ELSE m[c]]

\* globalMetrics.CodeStats[code]++, the read
record_Load(g) ==
  /\ InSetCode(g, "statsLoad")
  /\ Goto(g, "statsStore",
          [caller |-> gs[g].loc, count |-> mapIndex(globalMetrics.CodeStats, gs[g].call.val)])
  /\ UNCHANGED <<heap, last, setLog, tagLog, held, mu, globalMetrics, deferStack, mapHeap>>

\* globalMetrics.CodeStats[code]++, the write
record_Store(g) ==
  /\ InSetCode(g, "statsStore")
  /\ globalMetrics' = [globalMetrics EXCEPT !.CodeStats =
                         mapAssign(@, gs[g].call.val, gs[g].loc.count + 1)]
  /\ Goto(g, "statsUnlock", gs[g].loc.caller)
  /\ UNCHANGED <<heap, last, setLog, tagLog, held, mu, deferStack, mapHeap>>

\* globalMetrics.codeStatsMutex.Unlock()
record_Unlock(g) ==
  /\ InSetCode(g, "statsUnlock")
  /\ globalMetrics' = [globalMetrics EXCEPT !.codeStatsMutex = Unlocked]
  /\ Goto(g, "Code", gs[g].loc)
  /\ UNCHANGED <<heap, last, setLog, tagLog, held, mu, deferStack, mapHeap>>

\* ir.Code = val; ir.codeSet = true; return ir, on the node of ErrorC that
\* no other goroutine has
ErrorC_SetCode(g) ==
  /\ At(g, "ErrorC", "Code")
  /\ Return(g, setCode(gs[g].loc.err, gs[g].call.val))
  /\ UNCHANGED <<heap, last, setLog, tagLog, held, mu, globalMetrics, deferStack, mapHeap>>

\* ir.Code = val
SetCode_Code(g) ==
  /\ At(g, "SetCode", "Code")
  /\ heap' = [heap EXCEPT ![TheNode].Code = gs[g].call.val]
  /\ Goto(g, "codeSet", NoLocals)
  /\ UNCHANGED <<last, setLog, tagLog, held, mu, globalMetrics, deferStack, mapHeap>>

\* ir.codeSet = true; return ir
SetCode_codeSet(g) ==
  /\ At(g, "SetCode", "codeSet")
  /\ heap' = [heap EXCEPT ![TheNode].codeSet = TRUE]
  /\ setLog' = [setLog EXCEPT ![TheNode] = [called |-> TRUE, val |-> gs[g].call.val]]
  /\ Return(g, TheNode)
  /\ UNCHANGED <<last, tagLog, held, mu, globalMetrics, deferStack, mapHeap>>

\* return ir.Code
CurrentCode_Code(g) ==
  /\ At(g, "CurrentCode", "Code")
  /\ \E code \in VisibleCodes : Return(g, code)
  /\ UNCHANGED <<heap, last, setLog, tagLog, held, mu, globalMetrics, deferStack, mapHeap>>

\* return ir.codeSet
HasCurrentCode_codeSet(g) ==
  /\ At(g, "HasCurrentCode", "codeSet")
  /\ \E set \in VisibleCodeSet : Return(g, set)
  /\ UNCHANGED <<heap, last, setLog, tagLog, held, mu, globalMetrics, deferStack, mapHeap>>

\* the one link of the walk: code = t.CurrentCode(); val is code when it is
\* not 0
NearestCode_Code(g) ==
  /\ At(g, "NearestCode", "Code")
  /\ \E code \in VisibleCodes : Return(g, code)
  /\ UNCHANGED <<heap, last, setLog, tagLog, held, mu, globalMetrics, deferStack, mapHeap>>

\* lastCode != irr.Code, with lastCode 0
ToString_printCode(g) ==
  /\ At(g, "ToString", "printCode")
  /\ \E code \in VisibleCodes :
       Goto(g, IF code # 0 THEN "GetCodeStr" ELSE "tags", [sb |-> ""])
  /\ UNCHANGED <<heap, last, setLog, tagLog, held, mu, globalMetrics, deferStack, mapHeap>>

\* sb.WriteString(ir.GetCodeStr())
ToString_GetCodeStr(g) ==
  /\ At(g, "ToString", "GetCodeStr")
  /\ \E code \in VisibleCodes :
       Goto(g, "tags", [sb |-> IF code = 0 THEN "" ELSE "code(" \o Itoa(code) \o "), "])
  /\ UNCHANGED <<heap, last, setLog, tagLog, held, mu, globalMetrics, deferStack, mapHeap>>

\* sb.WriteString(ir.Msg); tagMap := ir.tags.Load() and the loop over it
ToString_tags(g) ==
  /\ At(g, "ToString", "tags")
  /\ \E keys \in KeySeqs(DOMAIN heap[TheNode].tags) :
       Goto(g, "lastCode",
            [sb |-> writeTags(gs[g].loc.sb \o heap[TheNode].Msg, heap[TheNode].tags, keys)])
  /\ UNCHANGED <<heap, last, setLog, tagLog, held, mu, globalMetrics, deferStack, mapHeap>>

\* lastCode = irr.Code; the node is the source: return sb.String()
ToString_lastCode(g) ==
  /\ At(g, "ToString", "lastCode")
  /\ Return(g, gs[g].loc.sb)
  /\ UNCHANGED <<heap, last, setLog, tagLog, held, mu, globalMetrics, deferStack, mapHeap>>

\* the mutex lets no goroutine wait
CanLock_noExclusion(g) == TRUE

\* ir.mu.Lock() returns when no goroutine holds the mutex
CanLock(g) == mu = Unlocked

SetTag_Lock(g) ==
  /\ At(g, "SetTag", "Lock")
  /\ CanLock(g)
  /\ mu' = g
  /\ Goto(g, "Load", NoLocals)
  /\ UNCHANGED <<heap, last, setLog, tagLog, held, globalMetrics, deferStack, mapHeap>>

\* currentTags := ir.tags.Load()
SetTag_Load(g) ==
  /\ At(g, "SetTag", "Load")
  /\ Goto(g, "Store", [currentTags |-> heap[TheNode].tags])
  /\ UNCHANGED <<heap, last, setLog, tagLog, held, mu, globalMetrics, deferStack, mapHeap>>

\* newTags is built from currentTags; ir.tags.Store(&newTags)
SetTag_Store(g) ==
  /\ At(g, "SetTag", "Store")
  /\ heap' = [heap EXCEPT ![TheNode].tags =
                setTag(gs[g].loc.currentTags, gs[g].call.key, gs[g].call.val)]
  /\ tagLog' = [tagLog EXCEPT ![TheNode] = logTag(@, gs[g].call.key, gs[g].call.val)]
  /\ Goto(g, "Unlock", NoLocals)
  /\ UNCHANGED <<last, setLog, held, mu, globalMetrics, deferStack, mapHeap>>

\* the deferred ir.mu.Unlock()
SetTag_Unlock(g) ==
  /\ At(g, "SetTag", "Unlock")
  /\ mu' = Unlocked
  /\ Return(g, TheNode)
  /\ UNCHANGED <<heap, last, setLog, tagLog, held, globalMetrics, deferStack, mapHeap>>

\* tagMap := ir.tags.Load(), and the copy of its values of key
GetTag_Load(g) ==
  /\ At(g, "GetTag", "Load")
  /\ Return(g, copyValues(heap[TheNode].tags, gs[g].call.key))
  /\ UNCHANGED <<heap, last, setLog, tagLog, held, mu, globalMetrics, deferStack, mapHeap>>

\* one node and the goroutines that call its methods at the same time
NextConc ==
  \/ Error
  \/ \E g \in Goroutines : \E call \in Calls(g) : GoCall(g, call)
  \/ \E g \in Goroutines : SetCode_val(g)
  \/ \E g \in Goroutines : record_AddInt64(g)
  \/ \E g \in Goroutines : record_Lock(g)
  \/ \E g \in Goroutines : record_Load(g)
  \/ \E g \in Goroutines : record_Store(g)
  \/ \E g \in Goroutines : record_Unlock(g)
  \/ \E g \in Goroutines : SetCode_Code(g)
  \/ \E g \in Goroutines : SetCode_codeSet(g)
  \/ \E g \in Goroutines : CurrentCode_Code(g)
  \/ \E g \in Goroutines : HasCurrentCode_codeSet(g)
  \/ \E g \in Goroutines : NearestCode_Code(g)
  \/ \E g \in Goroutines : ToString_printCode(g)
  \/ \E g \in Goroutines : ToString_GetCodeStr(g)
  \/ \E g \in Goroutines : ToString_tags(g)
  \/ \E g \in Goroutines : ToString_lastCode(g)
  \/ \E g \in Goroutines : SetTag_Lock(g)
  \/ \E g \in Goroutines : SetTag_Load(g)
  \/ \E g \in Goroutines : SetTag_Store(g)
  \/ \E g \in Goroutines : SetTag_Unlock(g)
  \/ \E g \in Goroutines : GetTag_Load(g)

SpecConc == Init /\ [][NextConc]_vars

(* ------------------------ the maps behind ir.tags ---------------------- *)

\* Each step below is one operation on ir.tags, on a map object or on the
\* mutex.  A goroutine that has returned can be followed by another.

\* a pointer to no map
NilMap == 0

\* the calls goroutine g can make on the tags of the node
TagCalls(g) ==
  {[op |-> "SetTag", key |-> key, val |-> val] : key \in TagKeys, val \in TagVals}
    \cup {[op |-> "GetTag", key |-> key] : key \in TagKeys}
    \cup {[op |-> "ToString"]}

\* the SetTag calls made so far, returned or not
SetTagCalls ==
  Len(mapHeap.states) - 1
    + Cardinality({g \in Goroutines :
                     /\ Running(g) /\ gs[g].call.op = "SetTag"
                     /\ gs[g].pc # "ir.mu.Unlock"})

\* go func() { err.SetTag(key, val) }(), and the same for GetTag and ToString
GoTagCall(g, call) ==
  /\ Len(heap) = TheNode /\ IsBasicIrr(TheNode)
  /\ gs[g] = Idle
  /\ call.op = "SetTag" => SetTagCalls < MaxTags
  /\ gs' = [gs EXCEPT ![g] = [pc |-> IF call.op = "SetTag" THEN "ir.mu.Lock" ELSE "ir.tags.Load",
                              call |-> call, loc |-> NoLocals]]
  /\ UNCHANGED <<heap, last, setLog, tagLog, held, mu, globalMetrics, deferStack, mapHeap>>

\* wg.Wait() has seen the goroutine return; the next one takes its place
WaitDone(g) ==
  /\ gs[g].pc = "done"
  /\ gs' = [gs EXCEPT ![g] = Idle]
  /\ UNCHANGED <<heap, last, setLog, tagLog, held, mu, globalMetrics, deferStack, mapHeap>>

\* ir.mu.Lock()
SetTag_muLock(g) ==
  /\ At(g, "SetTag", "ir.mu.Lock")
  /\ CanLock(g)
  /\ mu' = g
  /\ Goto(g, "ir.tags.Load", NoLocals)
  /\ UNCHANGED <<heap, last, setLog, tagLog, held, globalMetrics, deferStack, mapHeap>>

\* currentTags := ir.tags.Load()
SetTag_tagsLoad(g) ==
  /\ At(g, "SetTag", "ir.tags.Load")
  /\ Goto(g, "make", [currentTags |-> mapHeap.tags])
  /\ UNCHANGED <<heap, last, setLog, tagLog, held, mu, globalMetrics, deferStack, mapHeap>>

\* the locals of SetTag once newTags is made: the keys of *currentTags the
\* range loop has still to copy
afterMake(currentTags, newTags) ==
  [currentTags |-> currentTags, newTags |-> newTags,
   todo |-> IF currentTags = NilMap THEN {} ELSE DOMAIN mapHeap.maps[currentTags]]

\* the new map is stored in ir.tags as soon as it is made
SetTag_make_publish(g) ==
  /\ At(g, "SetTag", "make")
  /\ LET loc == afterMake(gs[g].loc.currentTags, Len(mapHeap.maps) + 1)
     IN  /\ mapHeap' = [mapHeap EXCEPT !.maps = Append(@, NoTags),
                                       !.tags = loc.newTags,
                                       !.published = @ \cup {loc.newTags}]
         /\ heap' = [heap EXCEPT ![TheNode].tags = NoTags]
         /\ Goto(g, IF loc.todo = {} THEN "append" ELSE "range", loc)
  /\ UNCHANGED <<last, setLog, tagLog, held, mu, globalMetrics, deferStack>>

\* newTags = make(map[string][]string), in either branch: a map object that
\* only this goroutine has
SetTag_make(g) ==
  /\ At(g, "SetTag", "make")
  /\ LET loc == afterMake(gs[g].loc.currentTags, Len(mapHeap.maps) + 1)
     IN  /\ mapHeap' = [mapHeap EXCEPT !.maps = Append(@, NoTags)]
         /\ Goto(g, IF loc.todo = {} THEN "append" ELSE "range", loc)
  /\ UNCHANGED <<heap, last, setLog, tagLog, held, mu, globalMetrics, deferStack>>

\* make([]string, len(v)); copy(dst, v)
copySlice(v) == [i \in 1..Len(v) |-> v[i]]

\* the tags field of the node in `heap` follows the object ir.tags points to
tagsOf(mh) == IF mh.tags = NilMap THEN NoTags ELSE mh.maps[mh.tags]

\* for k, v := range *currentTags { newTags[k] = make(...); copy(newTags[k], v) },
\* one key
SetTag_range(g) ==
  /\ At(g, "SetTag", "range")
  /\ \E k \in gs[g].loc.todo :
       LET loc == gs[g].loc
           v   == mapHeap.maps[loc.currentTags][k]
           mh  == [mapHeap EXCEPT !.maps[loc.newTags] = mapAssign(@, k, copySlice(v))]
       IN  /\ mapHeap' = mh
           /\ heap' = [heap EXCEPT ![TheNode].tags = tagsOf(mh)]
           /\ Goto(g, IF loc.todo = {k} THEN "append" ELSE "range",
                   [loc EXCEPT !.todo = @ \ {k}])
  /\ UNCHANGED <<last, setLog, tagLog, held, mu, globalMetrics, deferStack>>

\* newTags[key] = append(newTags[key], val)
SetTag_append(g) ==
  /\ At(g, "SetTag", "append")
  /\ LET loc == gs[g].loc
         key == gs[g].call.key
         m   == mapHeap.maps[loc.newTags]
         old == IF key \in DOMAIN m THEN m[key] ELSE <<>>
         mh  == [mapHeap EXCEPT !.maps[loc.newTags] = mapAssign(@, key, Append(old, gs[g].call.val))]
     IN  /\ mapHeap' = mh
         /\ heap' = [heap EXCEPT ![TheNode].tags = tagsOf(mh)]
         /\ Goto(g, "ir.tags.Store", loc)
  /\ UNCHANGED <<last, setLog, tagLog, held, mu, globalMetrics, deferStack>>

\* ir.tags.Store(&newTags); `states` gets the state this call has to leave:
\* the state before it with val appended to the list of key
SetTag_tagsStore(g) ==
  /\ At(g, "SetTag", "ir.tags.Store")
  /\ LET mh == [mapHeap EXCEPT
                  !.tags = gs[g].loc.newTags,
                  !.published = @ \cup {gs[g].loc.newTags},
                  !.states = Append(@, setTag(mapHeap.states[Len(mapHeap.states)],
                                              gs[g].call.key, gs[g].call.val))]
     IN  /\ mapHeap' = mh
         /\ heap' = [heap EXCEPT ![TheNode].tags = tagsOf(mh)]
  /\ tagLog' = [tagLog EXCEPT ![TheNode] = logTag(@, gs[g].call.key, gs[g].call.val)]
  /\ Goto(g, "ir.mu.Unlock", NoLocals)
  /\ UNCHANGED <<last, setLog, held, mu, globalMetrics, deferStack>>

\* the deferred ir.mu.Unlock()
SetTag_muUnlock(g) ==
  /\ At(g, "SetTag", "ir.mu.Unlock")
  /\ mu' = Unlocked
  /\ Return(g, TheNode)
  /\ UNCHANGED <<heap, last, setLog, tagLog, held, globalMetrics, deferStack, mapHeap>>

\* what a reader returns, with the places in `states` of the tag states at
\* its ir.tags.Load() and at its return
ReadResult(got, since) == [got |-> got, since |-> since, till |-> Len(mapHeap.states)]

\* tagMap := ir.tags.Load(); if tagMap == nil { return nil }
GetTag_tagsLoad(g) ==
  /\ At(g, "GetTag", "ir.tags.Load")
  /\ IF mapHeap.tags = NilMap
       THEN Return(g, ReadResult(NilSlice, Len(mapHeap.states)))
       ELSE Goto(g, "index", [tagMap |-> mapHeap.tags, since |-> Len(mapHeap.states)])
  /\ UNCHANGED <<heap, last, setLog, tagLog, held, mu, globalMetrics, deferStack, mapHeap>>

\* values := (*tagMap)[key], and the copy of values that is returned
GetTag_index(g) ==
  /\ At(g, "GetTag", "index")
  /\ Return(g, ReadResult(copyValues(mapHeap.maps[gs[g].loc.tagMap], gs[g].call.key),
                        gs[g].loc.since))
  /\ UNCHANGED <<heap, last, setLog, tagLog, held, mu, globalMetrics, deferStack, mapHeap>>

\* writeSelfTo of a node without a code: sb.WriteString(ir.Msg);
\* tagMap := ir.tags.Load()
writeSelfTo_tagsLoad(g) ==
  /\ At(g, "ToString", "ir.tags.Load")
  /\ IF mapHeap.tags = NilMap
       THEN Return(g, ReadResult(heap[TheNode].Msg, Len(mapHeap.states)))
       ELSE Goto(g, "range", [tagMap |-> mapHeap.tags, since |-> Len(mapHeap.states),
                              sb |-> heap[TheNode].Msg, seen |-> {}])
  /\ UNCHANGED <<heap, last, setLog, tagLog, held, mu, globalMetrics, deferStack, mapHeap>>

\* for key, values := range *tagMap { ... }, one key, or the end of the loop
\* and the return of sb.String()
writeSelfTo_range(g) ==
  /\ At(g, "ToString", "range")
  /\ LET loc  == gs[g].loc
         m    == mapHeap.maps[loc.tagMap]
         todo == DOMAIN m \ loc.seen
     IN  IF todo = {}
           THEN Return(g, ReadResult(loc.sb, loc.since))
           ELSE \E key \in todo :
                  Goto(g, "range", [loc EXCEPT !.sb = writeTagValues(@, key, m[key]),
                                               !.seen = @ \cup {key}])
  /\ UNCHANGED <<heap, last, setLog, tagLog, held, mu, globalMetrics, deferStack, mapHeap>>

\* the map objects the next step of g reads and the ones it writes, by plain
\* memory accesses
MapReads(g) ==
  IF ~Running(g) THEN {}
  ELSE CASE At(g, "SetTag", "range") -> {gs[g].loc.currentTags}
         [] At(g, "GetTag", "index") -> {gs[g].loc.tagMap}
         [] At(g, "ToString", "range") -> {gs[g].loc.tagMap}
         [] OTHER -> {}

MapWrites(g) ==
  IF ~Running(g) THEN {}
  ELSE CASE At(g, "SetTag", "range") -> {gs[g].loc.newTags}
         [] At(g, "SetTag", "append") -> {gs[g].loc.newTags}
         [] OTHER -> {}

\* one node, and the goroutines that set and read its tags at the same time
NextTagMaps ==
  \/ Error
  \/ \E g \in Goroutines : \E call \in TagCalls(g) : GoTagCall(g, call)
  \/ \E g \in Goroutines : WaitDone(g)
  \/ \E g \in Goroutines : SetTag_muLock(g)
  \/ \E g \in Goroutines : SetTag_tagsLoad(g)
  \/ \E g \in Goroutines : SetTag_make(g)
  \/ \E g \in Goroutines : SetTag_range(g)
  \/ \E g \in Goroutines : SetTag_append(g)
  \/ \E g \in Goroutines : SetTag_tagsStore(g)
  \/ \E g \in Goroutines : SetTag_muUnlock(g)
  \/ \E g \in Goroutines : GetTag_tagsLoad(g)
  \/ \E g \in Goroutines : GetTag_index(g)
  \/ \E g \in Goroutines : writeSelfTo_tagsLoad(g)
  \/ \E g \in Goroutines : writeSelfTo_range(g)

SpecTagMaps == Init /\ [][NextTagMaps]_vars

\* the calls that add to the counters: SetCode on the node the goroutines
\* share, and ErrorC
MetricCalls == {[op |-> op, val |-> val] : op \in {"SetCode", "ErrorC"}, val \in Codes}

\* the goroutines that call SetCode and ErrorC at the same time
NextMetrics ==
  \/ Error
  \/ \E g \in Goroutines : \E call \in MetricCalls : GoCall(g, call)
  \/ \E g \in Goroutines : ErrorC_newBasicIrr(g)
  \/ \E g \in Goroutines : SetCode_val(g)
  \/ \E g \in Goroutines : record_AddInt64(g)
  \/ \E g \in Goroutines : record_Lock(g)
  \/ \E g \in Goroutines : record_Load(g)
  \/ \E g \in Goroutines : record_Store(g)
  \/ \E g \in Goroutines : record_Unlock(g)
  \/ \E g \in Goroutines : ErrorC_SetCode(g)
  \/ \E g \in Goroutines : SetCode_Code(g)
  \/ \E g \in Goroutines : SetCode_codeSet(g)

SpecMetrics == Init /\ [][NextMetrics]_vars

\* the key of the tags the read chains carry
ReaderTagKeys == {"k"}

\* visitors that change nothing: they return nil, or fail on one link
ReaderFns ==
  {ReturnNil} \cup {FailAt(l, out, Ret(Nil)) : l \in Nodes, out \in FailOutcomes}

\* the chain with its codes and tags, and every operation of the Traversal
\* Engine and the Renderer
NextReaders ==
  \/ Build(TraverseCodes, RenderCaps)
  \/ \E ir \in Nodes, key \in ReaderTagKeys, val \in TagVals : SetTag(ir, key, val)
  \/ \E ir \in Receivers : CallRoot(ir)
  \/ \E ir \in Receivers : CallSource(ir)
  \/ \E ir \in Receivers : CallUnwrap(ir)
  \/ \E ir \in Receivers : CallNearestCode(ir)
  \/ \E ir \in Receivers : CallRootCode(ir)
  \/ \E ir \in Receivers : CallHasAnyCode(ir)
  \/ \E ir \in Receivers, printTrace \in BOOLEAN, split \in Splits, order \in Orders :
       CallToString(ir, printTrace, split, order)
  \/ \E ir \in Receivers, order \in Orders : CallError(ir, order)
  \/ \E ir \in Receivers, fn \in ReaderFns : CallTraverseToRoot(ir, fn)
  \/ \E ir \in Receivers, fn \in ReaderFns : CallTraverseToSource(ir, fn)
  \/ \E ir \in Receivers, fn \in ReaderFns : CallTraverseCode(ir, fn)

SpecReaders == Init /\ [][NextReaders]_vars

\* nested functions with a deferred CatchFailure, which return or panic
NextCatch ==
  \/ \E direct \in BOOLEAN : EnterFunc(direct)
  \/ \E r \in Payloads : PanicInBody(r)
  \/ RunDeferred

SpecCatch == Init /\ [][NextCatch]_vars

\* what the foreign errors handed to DumpToCodeNError let it read
DumpCaps == {<<"none", 5>>, <<"GetCode", 5>>, <<"GetCode", 0>>}

\* the errors DumpToCodeNError is called on: nil and the outermost link
DumpArgs == {NoErr} \cup InnerArgs

\* the chain, and DumpToCodeNError of nil and of the chain
NextDump ==
  \/ Build(TraverseCodes, DumpCaps)
  \/ \E err \in DumpArgs, appendMsg \in AppendMsgs, order \in Orders,
        hasGetCodeStr \in BOOLEAN, codeStr \in ForeignCodeStrs :
       CallDumpToCodeNError(err, appendMsg, order, hasGetCodeStr, codeStr)

SpecDump == Init /\ [][NextDump]_vars

\* the methods of irc.Code, over coded, uncoded and foreign inner errors
NextCode ==
  \/ Error
  \/ \E code \in Codes : ErrorC(code)
  \/ \E cap \in ForeignCaps : ForeignNew(cap[1], cap[2])
  \/ \E c \in Codes : Code_Error(c)
  \/ \E c \in Codes, innerErr \in InnerArgs : Code_Wrap(c, innerErr)
  \/ \E c \in Codes, t \in Frames : Code_TraceSkip(c, t)
  \/ \E c \in Codes, t \in Frames : Code_Trace(c, t)
  \/ \E c \in Codes, innerErr \in InnerArgs, t \in Frames : Code_TrackSkip(c, innerErr, t)
  \/ \E c \in Codes, innerErr \in InnerArgs, t \in Frames : Code_Track(c, innerErr, t)

SpecCode == Init /\ [][NextCode]_vars

\* the constructors that capture a frame, called at the call sites, over
\* traced, untraced and foreign inner errors
NextTrace ==
  \/ Error
  \/ \E cap \in RenderCaps : ForeignNew(cap[1], cap[2])
  \/ \E site \in CallSites : TraceSkip(generateStackTrace(site))
  \/ \E innerErr \in InnerArgs, site \in CallSites :
       TrackSkip(innerErr, generateStackTrace(site))
  \/ \E ir \in Receivers, split \in Splits, order \in Orders :
       CallToString(ir, TRUE, split, order)

SpecTrace == Init /\ [][NextTrace]_vars

\* the codes, the foreign types and the decorations of the chains rendered

\* ToString never looks below the first foreign error, so a foreign error is
\* only built as the innermost link
BuildRender ==
  \/ Error
  \/ \E code \in RenderCodes : ErrorC(code)
  \/ \E innerErr \in InnerArgs : Wrap(innerErr)
  \/ \E cap \in RenderCaps : ForeignNew(cap[1], cap[2])
  \/ \E ir \in Nodes, val \in RenderCodes : SetCode(ir, val)
  \/ \E t \in Frames : TraceSkip(t)
  \/ \E innerErr \in InnerArgs, t \in Frames : TrackSkip(innerErr, t)
  \/ \E ir \in Nodes, key \in TagKeys, val \in TagVals : SetTag(ir, key, val)

\* the chain with its codes, tags and traces, and the renderer
NextRender ==
  \/ BuildRender
  \/ \E ir \in Receivers, printTrace \in BOOLEAN, split \in Splits, order \in Orders :
       CallToString(ir, printTrace, split, order)
  \/ \E ir \in Receivers, order \in Orders : CallError(ir, order)

SpecRender == Init /\ [][NextRender]_vars

\* the public constructors and the mutators, over a foreign terminal value
\* or none, and the operations that walk the chain
NextChain ==
  \/ BuildRender
  \/ \E ir \in Receivers : CallRoot(ir)
  \/ \E ir \in Receivers : CallSource(ir)
  \/ \E ir \in Receivers : CallNearestCode(ir)
  \/ \E ir \in Receivers, split \in Splits, order \in Orders :
       CallToString(ir, FALSE, split, order)
  \/ \E ir \in Receivers : CallTraverseToRoot(ir, ReturnNil)
  \/ \E ir \in Receivers : CallTraverseToSource(ir, ReturnNil)

SpecChain == Init /\ [][NextChain]_vars

(* ============================== claims ================================= *)

\* the unwrap chain of e: e, Unwrap(e), Unwrap(Unwrap(e)), ... up to the
\* last value, whose Unwrap is unsupported or returns nil
RECURSIVE UnwrapSeq(_)
UnwrapSeq(e) ==
  IF heap[e].hasUnwrap /\ heap[e].inner # NoErr
    THEN <<e>> \o UnwrapSeq(heap[e].inner)
    ELSE <<e>>

Last(seq) == seq[Len(seq)]

\* a link at which the source-walk ends: a foreign error, or an Error Node
\* without an inner error
EndsSourceWalk(e) == ~IsBasicIrr(e) \/ heap[e].inner = NoErr

\* the position in the unwrap chain of e of the first link that ends the
\* source-walk
SourcePos(e) ==
  CHOOSE i \in DOMAIN UnwrapSeq(e) :
    /\ EndsSourceWalk(UnwrapSeq(e)[i])
    /\ \A j \in 1..(i - 1) : ~EndsSourceWalk(UnwrapSeq(e)[j])

\* the links the source-walk visits, in order
SourceWalk(e) == SubSeq(UnwrapSeq(e), 1, SourcePos(e))

\* the code a link lets the library read: 0 when it has no code reader
ExposedCode(e) == IF heap[e].codeCap = "none" THEN 0 ELSE heap[e].Code

\* N -> M -> F -> R of P1: two Error Nodes over a foreign error that wraps
\* another foreign error
IsP1Chain ==
  /\ Len(heap) = 4
  /\ heap[1].kind = "foreign" /\ heap[2].kind = "foreign"
  /\ heap[2].hasUnwrap /\ heap[2].inner = 1
  /\ IsBasicIrr(3) /\ heap[3].inner = 2
  /\ IsBasicIrr(4) /\ heap[4].inner = 3

\* C1: Root() returns the last value of the unwrap chain, walking through
\* Error Nodes and foreign errors alike; Source() returns the first link of
\* that chain that is a foreign error or an Error Node without inner, and
\* does not go past a foreign error that can itself be unwrapped.  On
\* N -> M -> F -> R, Root() = R and Source() = F.
C1_RootAndSource ==
  /\ last.op = "Root" => last.ret = Last(UnwrapSeq(last.ir))
  /\ last.op = "Source" => last.ret = UnwrapSeq(last.ir)[SourcePos(last.ir)]
  /\ (IsP1Chain /\ last.op = "Root" /\ last.ir = 4) => last.ret = 1
  /\ (IsP1Chain /\ last.op = "Source" /\ last.ir = 4) => last.ret = 2

C1_Witness ==
  /\ IsP1Chain
  /\ last.op = "Source" /\ last.ir = 4 /\ last.ret = 2
  /\ Last(UnwrapSeq(4)) = 1

\* the positions of the unwrap chain of e whose link reports a non-zero code
CodedPos(e) == {i \in DOMAIN UnwrapSeq(e) : ExposedCode(UnwrapSeq(e)[i]) # 0}

FirstCodedPos(e) == CHOOSE i \in CodedPos(e) : \A j \in CodedPos(e) : i <= j

\* C2: NearestCode() returns the code of the first link of the unwrap chain,
\* the receiver included, whose code is not 0, and 0 when no link has one;
\* links with code 0, set or not, are skipped.
C2_NearestCode ==
  last.op = "NearestCode" =>
    last.ret = IF CodedPos(last.ir) = {} THEN 0
               ELSE ExposedCode(UnwrapSeq(last.ir)[FirstCodedPos(last.ir)])

\* an outer node whose code was set to 0 and an inner node with another code
\* further down: the first coded link is neither the receiver nor the root
C2_Witness ==
  /\ last.op = "NearestCode"
  /\ Cardinality(CodedPos(last.ir)) >= 2
  /\ FirstCodedPos(last.ir) > 1
  /\ heap[last.ir].codeSet
  /\ last.ret # ExposedCode(Last(UnwrapSeq(last.ir)))
  /\ last.ret # 0

\* C3: RootCode() reads only the link the source-walk ends at: that link's
\* code when it has a code reader, else 0; never an intermediate link's code.
C3_RootCode ==
  last.op = "RootCode" =>
    last.ret = ExposedCode(UnwrapSeq(last.ir)[SourcePos(last.ir)])

\* the terminal is a foreign error without a code reader under coded nodes
C3_Witness ==
  /\ last.op = "RootCode" /\ last.ret = 0
  /\ Len(heap) >= 3
  /\ ~IsBasicIrr(UnwrapSeq(last.ir)[SourcePos(last.ir)])
  /\ heap[UnwrapSeq(last.ir)[SourcePos(last.ir)]].codeCap = "none"
  /\ \A i \in 1..(SourcePos(last.ir) - 1) : heap[UnwrapSeq(last.ir)[i]].Code # 0

\* C4: HasAnyCode() is true exactly when some link of the unwrap chain has a
\* non-zero code; a chain whose nodes all had SetCode(0) called reports false.
C4_HasAnyCode ==
  last.op = "HasAnyCode" => (last.ret <=> CodedPos(last.ir) # {})

C4_Witness ==
  /\ last.op = "HasAnyCode" /\ last.ret = FALSE
  /\ Len(heap) >= 2
  /\ \A e \in Nodes : IsBasicIrr(e) /\ setLog[e] = [called |-> TRUE, val |-> 0]
  /\ HasCurrentCode(last.ir)

\* C5: on every Error Node, codeSet is true iff SetCode was called on that
\* node, whatever the value, and Code is the value of the latest call, or 0;
\* HasCurrentCode() and CurrentCode() return them; a SetCode on one node
\* changes neither on any other node, and codeSet never goes back to false.
C5_StateOk ==
  /\ \A e \in Nodes :
       IsBasicIrr(e) =>
         /\ heap[e].codeSet = setLog[e].called
         /\ heap[e].Code = IF setLog[e].called THEN setLog[e].val ELSE 0
  /\ last.op = "HasCurrentCode" => last.ret = setLog[last.ir].called
  /\ last.op = "CurrentCode" =>
       last.ret = IF setLog[last.ir].called THEN setLog[last.ir].val ELSE 0

C5_StepOk ==
  \A e \in Nodes :
    /\ heap[e].codeSet => heap'[e].codeSet
    /\ (IsBasicIrr(e) /\ ~(last'.op = "SetCode" /\ last'.ir = e)) =>
         /\ heap'[e].codeSet = heap[e].codeSet
         /\ heap'[e].Code = heap[e].Code

C5_HasCurrentCode == [](C5_StateOk) /\ [][C5_StepOk]_vars

\* SetCode(0) was called on the receiver, below a wrapper that has no code
C5_Witness ==
  /\ last.op = "HasCurrentCode" /\ last.ret = TRUE
  /\ heap[last.ir].Code = 0
  /\ \E e \in Nodes : IsBasicIrr(e) /\ e # last.ir /\ setLog[e].called /\ setLog[e].val # 0
  /\ \E e \in Nodes : IsBasicIrr(e) /\ e # last.ir /\ ~setLog[e].called



\* the segments joined by sep: sep between two segments and nowhere else
RECURSIVE Join(_, _)
Join(segs, sep) ==
  IF segs = <<>> THEN ""
  ELSE IF Len(segs) = 1 THEN segs[1]
  ELSE segs[1] \o sep \o Join(Tail(segs), sep)

\* the code of the Error Node rendered just before position i of walk w
\* (0 before the first)
CodeBefore(w, i) == IF i = 1 THEN 0 ELSE heap[w[i - 1]].Code

\* the prefix C6 gives the Error Node at position i of walk w
CodePrefix(w, i) ==
  IF heap[w[i]].Code # 0 /\ heap[w[i]].Code # CodeBefore(w, i)
    THEN "code(" \o Itoa(heap[w[i]].Code) \o "), "
    ELSE ""

\* the rendering C6 describes: each Error Node is its prefix followed by its
\* message, tags and trace
PrefixedSegments(ir, printTrace, order) ==
  LET w == SourceWalk(ir)
  IN  [i \in DOMAIN w |->
         IF IsBasicIrr(w[i])
           THEN CodePrefix(w, i) \o writeSelfTo("", w[i], printTrace, FALSE, order[w[i]])
           ELSE heap[w[i]].Msg]

\* top(9) -> mid(7) -> root(7) of P2
IsP2Chain ==
  /\ Len(heap) = 3
  /\ \A e \in Nodes : IsBasicIrr(e) /\ heap[e].inner = e - 1
  /\ heap[1].Code = 7 /\ heap[2].Code = 7 /\ heap[3].Code = 9
  /\ heap[1].Msg = "root" /\ heap[2].Msg = "mid" /\ heap[3].Msg = "top"

\* C6: ToString writes the prefix `code(<c>), ` of an Error Node iff its code
\* c is not 0 and differs from the code of the Error Node rendered just
\* before it (0 before the first, and a code of 0 counts); equal codes in a
\* row print one prefix, and top(9) -> mid(7) -> root(7) with "; " is
\* `code(9), top; code(7), mid; root`.
C6_CodePrefix ==
  /\ last.op = "ToString" =>
       \E order \in Orders :
         last.ret = Join(PrefixedSegments(last.ir, last.printTrace, order), last.split)
  /\ (IsP2Chain /\ last.op = "ToString" /\ last.ir = 3 /\ last.split = "; ") =>
       last.ret = "code(9), top; code(7), mid; root"

C6_Witness ==
  /\ IsP2Chain
  /\ last.op = "ToString" /\ last.ir = 3 /\ last.split = "; "
  /\ last.ret = "code(9), top; code(7), mid; root"

\* the segment of the link at position i of the source-walk: an Error Node
\* writes itself, a foreign link is its Error() string and nothing else
Segments(ir, printTrace, order) ==
  LET w == SourceWalk(ir)
  IN  [i \in DOMAIN w |->
         IF IsBasicIrr(w[i])
           THEN writeSelfTo("", w[i], printTrace,
                            heap[w[i]].Code # CodeBefore(w, i), order[w[i]])
           ELSE heap[w[i]].Msg]

\* C7: ToString writes one segment per link of the source-walk, in order,
\* with the separator between two segments and nowhere else; a foreign
\* terminal link is its own Error() string; Error() is ToString(false, ", ").
C7_Segments ==
  /\ last.op = "ToString" =>
       \E order \in Orders :
         last.ret = Join(Segments(last.ir, last.printTrace, order), last.split)
  /\ last.op = "BasicIrr.Error" =>
       \E order \in Orders : last.ret = Join(Segments(last.ir, FALSE, order), ", ")

\* three links over a foreign terminal, the receiver tagged and traced
C7_Witness ==
  /\ last.op = "ToString" /\ last.printTrace
  /\ Len(SourceWalk(last.ir)) = 3
  /\ ~IsBasicIrr(Last(SourceWalk(last.ir)))
  /\ heap[last.ir].tags # NoTags /\ heap[last.ir].Trace # NoTrace
  /\ heap[last.ir].Code # 0


\* fn returned a non-nil error from its i-th call
ReturnedErr(i) == last.rets[i].act = "return" /\ last.rets[i].val # Nil

\* no call of fn panicked
NoPanic == \A i \in DOMAIN last.rets : last.rets[i].act = "return"

\* C8: when visit always returns nil, TraverseToRoot calls it once on each
\* value of the unwrap chain of the receiver, in unwrap order from the
\* receiver itself, foreign values and what they unwrap to included, stops
\* when the next value is nil, and returns nil.
C8_TraverseToRootWalk ==
  (last.op = "TraverseToRoot" /\ \A i \in DOMAIN last.rets : last.rets[i] = Ret(Nil)) =>
    /\ last.calls = UnwrapSeq(last.ir)
    /\ last.ret = Nil

\* a walk through a foreign error into the error it wraps
C8_Witness ==
  /\ last.op = "TraverseToRoot"
  /\ \A i \in DOMAIN last.rets : last.rets[i] = Ret(Nil)
  /\ Len(last.calls) = 4
  /\ IsBasicIrr(last.calls[2])
  /\ ~IsBasicIrr(last.calls[3]) /\ ~IsBasicIrr(last.calls[4])

\* C9: in TraverseToRoot the first non-nil value visit returns ends the
\* traversal: it is the last call of visit, and the value is the result.
C9_TraverseToRootBreak ==
  last.op = "TraverseToRoot" =>
    \A i \in DOMAIN last.rets :
      ReturnedErr(i) => (i = Len(last.calls) /\ last.ret = last.rets[i].val)

\* visit fails on the second of at least three links
C9_Witness ==
  /\ last.op = "TraverseToRoot"
  /\ Len(last.calls) = 2 /\ Len(UnwrapSeq(last.ir)) >= 3
  /\ ReturnedErr(2)
  /\ last.ret = previousErr

\* C10 as stated: in TraverseToSource a non-nil error returned by visit on
\* any link is the last call of visit and the result of the traversal.
C10_Original ==
  last.op = "TraverseToSource" =>
    \A i \in DOMAIN last.rets :
      ReturnedErr(i) => (i = Len(last.calls) /\ last.ret = last.rets[i].val)

\* C10: in TraverseToSource a non-nil error returned by visit on the source
\* link is the last call of visit and the result of the traversal; a non-nil
\* error returned on a link that is not the source does not end the
\* traversal: visit is called on the inner of that link, and unless a call
\* panics the result is what visit returns on the source link.
C10_TraverseToSourceBreak ==
  last.op = "TraverseToSource" =>
    /\ \A i \in DOMAIN last.rets :
         /\ (ReturnedErr(i) /\ last.calls[i][2]) =>
              (i = Len(last.calls) /\ last.ret = last.rets[i].val)
         /\ (ReturnedErr(i) /\ ~last.calls[i][2]) =>
              /\ i < Len(last.calls)
              /\ last.calls[i + 1][1] = heap[last.calls[i][1]].inner
    /\ NoPanic => (Last(last.calls)[2] /\ last.ret = Last(last.rets).val)

\* visit returns one error on a link above the source and another on the
\* source: the traversal returns the second
C10_Witness ==
  /\ last.op = "TraverseToSource"
  /\ Len(last.calls) >= 3
  /\ ReturnedErr(2) /\ ~last.calls[2][2]
  /\ last.rets[2].val = previousErr
  /\ last.ret = returnedErr


\* the links of the calls a traversal made to (err, flag) callbacks
CalledLinks == [i \in DOMAIN last.calls |-> last.calls[i][1]]

\* C11: when no call panics, TraverseToSource walks the whole source-walk,
\* makes its one call with isSource = true last, and returns what visit
\* returned from that call, whatever visit returned on the links before it.
C11_SourceResult ==
  (last.op = "TraverseToSource" /\ NoPanic) =>
    /\ CalledLinks = SourceWalk(last.ir)
    /\ \A i \in DOMAIN last.calls : last.calls[i][2] <=> i = Len(last.calls)
    /\ last.ret = last.rets[Len(last.rets)].val

\* visit returns an error above the source and nil on the source: the
\* traversal returns nil
C11_Witness ==
  /\ last.op = "TraverseToSource" /\ NoPanic
  /\ Len(last.calls) >= 2
  /\ ReturnedErr(1)
  /\ last.rets[Len(last.rets)] = Ret(Nil)
  /\ last.ret = Nil

\* C12 as stated: an Error Node link is visited with isSource true iff its
\* inner is absent or is not an Error Node.
C12_Original ==
  last.op = "TraverseToSource" =>
    \A i \in DOMAIN last.calls :
      IsBasicIrr(last.calls[i][1]) =>
        (last.calls[i][2] <=>
           (heap[last.calls[i][1]].inner = NoErr \/ ~IsBasicIrr(heap[last.calls[i][1]].inner)))

\* C12: an Error Node link is visited with isSource true iff its inner is
\* absent; an Error Node whose inner is a foreign error is visited with
\* isSource false, and unless that call panics the foreign inner is visited
\* next, with isSource true, as the last call.
C12_IsSource ==
  last.op = "TraverseToSource" =>
    \A i \in DOMAIN last.calls :
      LET cur == last.calls[i][1]
      IN  /\ IsBasicIrr(cur) => (last.calls[i][2] <=> heap[cur].inner = NoErr)
          /\ ~IsBasicIrr(cur) => (last.calls[i][2] /\ i = Len(last.calls))
          /\ (/\ IsBasicIrr(cur) /\ heap[cur].inner # NoErr
              /\ ~IsBasicIrr(heap[cur].inner)
              /\ last.rets[i].act = "return") =>
               /\ i + 1 = Len(last.calls)
               /\ last.calls[i + 1] = <<heap[cur].inner, TRUE>>

\* an Error Node over a foreign error: (node, false) and then (foreign, true)
C12_Witness ==
  /\ last.op = "TraverseToSource"
  /\ Len(last.calls) >= 2
  /\ LET n == Len(last.calls)
     IN  /\ IsBasicIrr(last.calls[n - 1][1]) /\ ~last.calls[n - 1][2]
         /\ ~IsBasicIrr(last.calls[n][1]) /\ last.calls[n][2]

Traversals == {"TraverseToRoot", "TraverseToSource", "TraverseCode"}

\* the i-th call of the callback panicked
Panicked(i) == last.rets[i].act = "panic"

\* an error as Wrap(ErrUntypedExecutionFailure, "panic = %v", r) makes it for
\* a payload whose text is `text`
IsUntypedFailure(e, text) ==
  /\ IsErrorValue(e) /\ e # Nil
  /\ "inner" \in DOMAIN e /\ e.inner = "ErrUntypedExecutionFailure"
  /\ e.Msg = "panic = " \o text

\* C13: a panic of the callback ends TraverseToRoot, TraverseToSource and
\* TraverseCode with a returned error: the payload itself when it is an
\* error, else an error that wraps ErrUntypedExecutionFailure and whose
\* message holds the text of the payload; the panicking call is the last.
C13_PanicContained ==
  last.op \in Traversals =>
    \A i \in DOMAIN last.rets :
      Panicked(i) =>
        /\ i = Len(last.calls)
        /\ IsErrorValue(last.ret) /\ last.ret # Nil
        /\ IsErrorValue(last.rets[i].val) => last.ret = last.rets[i].val
        /\ ~IsErrorValue(last.rets[i].val) =>
             IsUntypedFailure(last.ret, last.rets[i].val.str)

\* a callback that panics with a string on the second link of a source-walk
\* of at least three links
C13_Witness ==
  /\ last.op = "TraverseToSource"
  /\ Len(last.calls) = 2 /\ Len(SourceWalk(last.ir)) >= 3
  /\ Panicked(2) /\ ~IsErrorValue(last.rets[2].val)
  /\ IsUntypedFailure(last.ret, "some error string")

\* C14: TraverseCode calls visit(link, code) on the links of the unwrap chain
\* in order, code being the code the link exposes through CurrentCode() or
\* GetCode() and 0 for a link with neither; a non-nil result of visit is its
\* last call and the result, and with nil results every link is visited.
C14_TraverseCode ==
  last.op = "TraverseCode" =>
    LET w == UnwrapSeq(last.ir)
    IN  /\ Len(last.calls) <= Len(w)
        /\ \A i \in DOMAIN last.calls : last.calls[i] = <<w[i], ExposedCode(w[i])>>
        /\ \A i \in DOMAIN last.rets :
             ReturnedErr(i) => (i = Len(last.calls) /\ last.ret = last.rets[i].val)
        /\ (\A i \in DOMAIN last.rets : last.rets[i] = Ret(Nil)) =>
             (Len(last.calls) = Len(w) /\ last.ret = Nil)

\* a walk over a coded Error Node, a foreign error with GetCode and a
\* foreign error without a code
C14_Witness ==
  /\ last.op = "TraverseCode"
  /\ \E i, j, k \in DOMAIN last.calls :
       /\ IsBasicIrr(last.calls[i][1]) /\ last.calls[i][2] = 7
       /\ ~IsBasicIrr(last.calls[j][1]) /\ last.calls[j][2] = 5
       /\ heap[last.calls[k][1]].codeCap = "none" /\ last.calls[k][2] = 0


\* what GetTag must return for the values vals passed with a key
LoggedSlice(log, key) ==
  IF key \in DOMAIN log
    THEN [isNil |-> FALSE, vals |-> log[key], backing |-> "fresh"]
    ELSE NilSlice

\* the values stored for a key, none when the key was never set
StoredVals(node, key) ==
  IF node.tags # NoTags /\ key \in DOMAIN node.tags THEN node.tags[key] ELSE <<>>

IsPrefix(a, b) == Len(a) <= Len(b) /\ SubSeq(b, 1, Len(a)) = a

\* GetTag answers with the values the SetTag calls passed with the key, in
\* call order
C15_StateOk ==
  /\ \A ir \in Nodes, key \in TagKeys :
       IsBasicIrr(ir) => GetTag(ir, key) = LoggedSlice(tagLog[ir], key)
  /\ last.op = "GetTag" => last.ret = LoggedSlice(tagLog[last.ir], last.key)

\* no step removes, replaces or reorders a stored value, and SetTag(k, v)
\* adds v at the end of k's values and leaves the other keys alone
C15_StepOk ==
  /\ \A ir \in Nodes, key \in TagKeys :
       IsPrefix(StoredVals(heap[ir], key), StoredVals(heap'[ir], key))
  /\ last'.op = "SetTag" =>
       \A ir \in Nodes, key \in TagKeys :
         StoredVals(heap'[ir], key) =
           IF ir = last'.ir /\ key = last'.key
             THEN Append(StoredVals(heap[ir], key), last'.val)
             ELSE StoredVals(heap[ir], key)

\* C15: tags are append-only and multi-valued: GetTag(k) returns exactly the
\* values passed to SetTag with key k on that node, in call order, whatever
\* was set for other keys, and no operation removes, replaces or reorders a
\* stored value.
C15_TagsAppendOnly == [](C15_StateOk) /\ [][C15_StepOk]_vars

\* two values under one key, read back in call order
C15_Witness ==
  /\ last.op = "GetTag"
  /\ last.ret.vals = <<"b", "a">>
  /\ \E key \in TagKeys : key # last.key /\ StoredVals(heap[last.ir], key) = <<>>

\* C16: GetTag returns a copy: writing to an element of a slice it returned
\* changes neither the tags the node stores, nor any other slice GetTag
\* returned, nor what GetTag returns afterwards.
C16_DefensiveCopy ==
  [][last'.op = "WriteElem" =>
       /\ heap' = heap
       /\ \A j \in DOMAIN held : j # last'.h => held'[j] = held[j]
       /\ \A ir \in Nodes, key \in TagKeys :
            IsBasicIrr(ir) => GetTag(ir, key)' = GetTag(ir, key)]_vars

\* tags1 and tags2 of the same key: tags1[1] was written, tags2 and the node
\* still hold the value that was set
C16_Witness ==
  /\ last.op = "WriteElem"
  /\ Len(held) = 2
  /\ held[1].ir = held[2].ir /\ held[1].key = held[2].key
  /\ last.i = 1 /\ held[last.h].slice.vals[1] = Modified
  /\ \E j \in DOMAIN held :
       /\ j # last.h
       /\ held[j].slice.vals = heap[held[j].ir].tags[held[j].key]
       /\ held[j].slice.vals[1] # Modified


\* the inner error carries a Trace Record equal in function, file and line
\* to frame t
CarriesFrame(innerErr, t) ==
  /\ innerErr # NoErr
  /\ IsBasicIrr(innerErr)
  /\ heap[innerErr].Trace # NoTrace
  /\ heap[innerErr].Trace.FuncName = t.FuncName
  /\ heap[innerErr].Trace.FileName = t.FileName
  /\ heap[innerErr].Trace.Line = t.Line

\* C19: TrackSkip/Track leave the trace of the new node absent iff the inner
\* error is an Error Node that carries a Trace Record equal in function, file
\* and line to the frame captured for the new node; in every other case the
\* new node carries the captured frame.
C19_TraceCollapse ==
  [][\A innerErr \in InnerArgs, site \in CallSites :
       TrackSkip(innerErr, generateStackTrace(site)) =>
         LET t == generateStackTrace(site)
             new == heap'[Len(heap')]
         IN  /\ new.Trace = NoTrace <=> CarriesFrame(innerErr, t)
             /\ ~CarriesFrame(innerErr, t) => new.Trace = t]_vars

\* a node tracked at the call site its inner was traced at: no trace
C19_Witness ==
  /\ last.op = "TrackSkip"
  /\ heap[last.ret].Trace = NoTrace
  /\ heap[heap[last.ret].inner].Trace # NoTrace

\* site b is the line after site a, in the same function
NextLine(a, b) == a.fn = b.fn /\ a.file = b.file /\ b.line = a.line + 1

\* outer := Track(inner, ...) at site b, where inner is the error Trace made
\* at site a on the line before
TrackOnNextLine(a, b) ==
  /\ NextLine(a, b)
  /\ Len(heap) = 1
  /\ heap[1].Trace = generateStackTrace(a)
  /\ TrackSkip(1, generateStackTrace(b))

\* C20 as stated: outer := Track(inner, "y") on the line after
\* inner := Trace("x") has no trace.
C20_Original ==
  [][\A a, b \in CallSites :
       TrackOnNextLine(a, b) => heap'[2].Trace = NoTrace]_vars

\* C20: outer := Track(inner, "y") on the line after inner := Trace("x")
\* carries the frame of its own line, which differs from inner's in the line,
\* and ToString(true, ...) renders outer with that trace.
C20_TrackNextLine ==
  /\ [][\A a, b \in CallSites :
          TrackOnNextLine(a, b) => heap'[2].Trace = generateStackTrace(b)]_vars
  /\ [](\A a, b \in CallSites :
          (/\ NextLine(a, b) /\ Len(heap) = 2
           /\ heap[1].Trace = generateStackTrace(a) /\ heap[2].inner = 1
           /\ heap[2].Trace = generateStackTrace(b)
           /\ last.op = "ToString" /\ last.ir = 2)
          => last.ret = heap[2].Msg \o " irr.TestTrack@irr_test.go:41" \o last.split
                        \o heap[1].Msg \o " irr.TestTrack@irr_test.go:40")

\* the two nodes of P6, rendered with their traces
C20_Witness ==
  /\ Len(heap) = 2 /\ heap[2].inner = 1
  /\ heap[1].Trace = [FuncName |-> "irr.TestTrack", FileName |-> "irr_test.go", Line |-> 40]
  /\ heap[2].Trace = [FuncName |-> "irr.TestTrack", FileName |-> "irr_test.go", Line |-> 41]
  /\ last.op = "ToString" /\ last.ir = 2


\* two accesses that race: the same field, one of them a write, and not both
\* operations of sync/atomic
Conflict(a, b) ==
  /\ a.field # "none" /\ a.field = b.field
  /\ a.write \/ b.write
  /\ ~(a.atomic /\ b.atomic)

\* C17 as stated: no two goroutines are ever about to access the same field
\* of the node, one of them writing, without synchronisation.
C17_NoDataRace ==
  \A g, h \in Goroutines : g # h => ~Conflict(Access(g), Access(h))

AllDone == \A g \in Goroutines : gs[g].pc = "done"

\* the goroutines that called SetTag with key
TagSetters(key) ==
  {g \in Goroutines : gs[g].pc = "done" /\ gs[g].call.op = "SetTag" /\ gs[g].call.key = key}

\* C18: when the SetTag calls that ran at the same time on one node and key
\* have all returned, GetTag on that key returns one value per call.
C18_NoLostUpdate ==
  AllDone =>
    \A key \in TagKeys :
      LET vals == GetTag(TheNode, key).vals
      IN  /\ Len(vals) = Cardinality(TagSetters(key))
          /\ {vals[i] : i \in DOMAIN vals} = {ValueOf(g) : g \in TagSetters(key)}

\* every goroutine set a tag with the same key, and all have returned
C18_Witness ==
  /\ AllDone
  /\ TagSetters("k") = Goroutines
  /\ Len(GetTag(TheNode, "k").vals) = MaxGoroutines

\* the goroutines whose SetCode or ErrorC call with code has returned
CodeSetters(code) ==
  {g \in Goroutines : /\ gs[g].pc = "done"
                       /\ gs[g].call.op \in {"SetCode", "ErrorC"}
                       /\ gs[g].call.val = code}

\* the counters hold one count per call made with a code
CountersExact ==
  /\ globalMetrics.ErrorWithCode =
       Cardinality(UNION {CodeSetters(code) : code \in Codes \ {0}})
  /\ \A code \in Codes \ {0} :
       mapIndex(globalMetrics.CodeStats, code) = Cardinality(CodeSetters(code))
  /\ 0 \notin DOMAIN globalMetrics.CodeStats

\* a step of a goroutine inside SetCode(0) or ErrorC(0, ...)
StepWithZero ==
  \E g \in Goroutines :
    /\ Running(g) /\ gs[g].call.op \in {"SetCode", "ErrorC"} /\ gs[g].call.val = 0
    /\ gs'[g] # gs[g]

\* C21: when the SetCode and ErrorC calls that ran at the same time have all
\* returned, ErrorWithCode is the number of calls made with a code other
\* than 0 and CodeStats holds, for each code, the number of calls made with
\* it; a call with code 0 changes no counter.
C21_MetricsExact ==
  /\ [](AllDone => CountersExact)
  /\ [][StepWithZero => UNCHANGED globalMetrics]_vars

\* a SetCode and an ErrorC with the same code ran at the same time and have
\* returned
C21_Witness ==
  /\ AllDone
  /\ CodeSetters(7) = Goroutines
  /\ \E g, h \in Goroutines : gs[g].call.op = "SetCode" /\ gs[h].call.op = "ErrorC"
  /\ mapIndex(globalMetrics.CodeStats, 7) = MaxGoroutines

\* the methods of irc.Code
CodeMethods ==
  {"Code.Error", "Code.Wrap", "Code.TraceSkip", "Code.Trace", "Code.TrackSkip", "Code.Track"}

\* the first code other than 0 that the links below e expose, 0 when there
\* is none
CodeBelow(e) ==
  LET innerErr == heap[e].inner
  IN  IF innerErr = NoErr \/ CodedPos(innerErr) = {} THEN 0
      ELSE ExposedCode(UnwrapSeq(innerErr)[FirstCodedPos(innerErr)])

\* C22 as stated: the error a method of Code c returns reports c from
\* GetCode(), for every c and every inner error.
C22_Original ==
  last.op \in CodeMethods => GetCode(last.ret) = last.c

\* C22: the error a method of Code c returns holds c as its own code, and
\* reports c from GetCode() when c is not 0; when c is 0 GetCode() reports
\* the first code other than 0 of the inner error's chain, and 0 when there
\* is none.
C22_SpawnerCode ==
  last.op \in CodeMethods =>
    /\ CurrentCode(last.ret) = last.c /\ HasCurrentCode(last.ret)
    /\ GetCode(last.ret) = IF last.c # 0 THEN last.c ELSE CodeBelow(last.ret)

\* Code(0) wrapped an inner error that has a code
C22_Witness ==
  /\ last.op \in {"Code.Wrap", "Code.Track"}
  /\ last.c = 0
  /\ CodeBelow(last.ret) # 0
  /\ GetCode(last.ret) = CodeBelow(last.ret)
\* C23 as stated: DumpToCodeNError returns `unknown` for every error other
\* than nil whose chain holds no code other than 0, whatever its type, and
\* returns `succ` with an empty message only for nil.
C23_UnknownWhenNoCode ==
  last.op = "DumpToCodeNError" =>
    /\ last.err = NoErr => last.ret = [code |-> TestCodeSuccess, msg |-> ""]
    /\ (last.err # NoErr /\ CodedPos(last.err) = {}) => last.ret.code = TestCodeUnknown
    /\ last.err # NoErr => last.ret # [code |-> TestCodeSuccess, msg |-> ""]
ReaderOps ==
  {"Root", "Source", "Unwrap", "TraverseToRoot", "TraverseToSource", "TraverseCode",
   "NearestCode", "RootCode", "HasAnyCode", "ToString", "BasicIrr.Error"}

\* the fields of every node are the same after the step as before it
NodesUnchanged ==
  /\ Len(heap') = Len(heap)
  /\ \A e \in Nodes :
       /\ heap'[e].Msg = heap[e].Msg
       /\ heap'[e].Code = heap[e].Code
       /\ heap'[e].codeSet = heap[e].codeSet
       /\ heap'[e].tags = heap[e].tags
       /\ heap'[e].Trace = heap[e].Trace
       /\ heap'[e].inner = heap[e].inner

\* C25: a call of Root, Source, Unwrap, TraverseToRoot, TraverseToSource,
\* TraverseCode (with a visitor that changes nothing), NearestCode, RootCode,
\* HasAnyCode, ToString or Error leaves the message, code, codeSet, tags,
\* trace and inner of every node as they were.
C25_ReadOnly ==
  [][last'.op \in ReaderOps => NodesUnchanged]_vars

\* a traversal has run over a chain of three links that holds a code and a
\* tag
C25_Witness ==
  /\ last.op \in Traversals
  /\ Len(last.calls) >= 3
  /\ \E e \in Nodes : IsBasicIrr(e) /\ heap[e].Code # 0
  /\ \E e \in Nodes : IsBasicIrr(e) /\ heap[e].tags # NoTags
\* following inner from e ends at nil within `fuel` links
RECURSIVE WalkEnds(_, _)
WalkEnds(e, fuel) ==
  IF e = NoErr THEN TRUE
  ELSE IF fuel = 0 THEN FALSE
  ELSE WalkEnds(heap[e].inner, fuel - 1)

\* `target` is met following inner from e, within `fuel` links
RECURSIVE Reaches(_, _, _)
Reaches(e, target, fuel) ==
  IF e = NoErr \/ fuel = 0 THEN FALSE
  ELSE e = target \/ Reaches(heap[e].inner, target, fuel - 1)

\* the inner error of every node existed before the node, no node is
\* reachable from itself, and the walk from every node ends
ChainAcyclic ==
  \A e \in Nodes :
    /\ heap[e].inner < e
    /\ ~Reaches(heap[e].inner, e, Len(heap))
    /\ WalkEnds(e, Len(heap))

\* no step reassigns the inner error of a node
InnerKept == \A e \in Nodes : heap'[e].inner = heap[e].inner

\* C26: in a chain built with the public constructors the inner error of a
\* node exists before the node and is never reassigned, by a constructor or
\* by a mutator, so no node is reachable from itself and a walk along inner
\* ends after at most as many links as there are nodes.
C26_Acyclic ==
  /\ [](ChainAcyclic)
  /\ [][InnerKept]_vars

\* a walk has run to the end of a chain of three Error Nodes, one of which
\* had its code set after it was wrapped
C26_Witness ==
  /\ last.op \in {"Root", "TraverseToRoot", "TraverseToSource"}
  /\ Len(heap) = 3 /\ \A e \in Nodes : IsBasicIrr(e)
  /\ heap[3].inner = 2 /\ heap[2].inner = 1 /\ heap[1].inner = NoErr
  /\ setLog[1].called /\ heap[1].codeSet

\* the Error Nodes from e on that are joined by inner links, in chain order
RECURSIVE InternalChain(_, _)
InternalChain(e, fuel) ==
  IF fuel = 0 \/ ~IsBasicIrr(e) THEN <<>>
  ELSE <<e>> \o InternalChain(heap[e].inner, fuel - 1)

\* the calls of the last traversal that were made with isSource = true
SourceCalls == {i \in DOMAIN last.calls : last.calls[i][2]}

\* C27: in a TraverseToSource run in which no call of visit panics, exactly
\* one call has isSource = true, it is the last call, and its value is
\* Source(); the Error Nodes of the internal chain are visited once each, in
\* chain order, none after the source call, and a foreign terminal value is
\* visited exactly once.
C27_SourceVisitedLast ==
  (last.op = "TraverseToSource" /\ NoPanic) =>
    LET n     == Len(last.calls)
        chain == InternalChain(last.ir, MaxNodes)
        tail  == heap[chain[Len(chain)]].inner
    IN  /\ Cardinality(SourceCalls) = 1
        /\ SourceCalls = {n}
        /\ last.calls[n][1] = Source(last.ir)
        /\ SubSeq(CalledLinks, 1, Len(chain)) = chain
        /\ \A i, j \in DOMAIN last.calls : i # j => last.calls[i][1] # last.calls[j][1]
        /\ IF tail = NoErr THEN n = Len(chain)
           ELSE /\ n = Len(chain) + 1
                /\ Cardinality({i \in DOMAIN last.calls : last.calls[i][1] = tail}) = 1

\* two Error Nodes over a foreign error, visit returning an error on the
\* first: three calls, the foreign error last and alone with isSource = true
C27_Witness ==
  /\ last.op = "TraverseToSource" /\ NoPanic
  /\ Len(last.calls) = 3
  /\ IsBasicIrr(last.calls[2][1])
  /\ ~IsBasicIrr(last.calls[3][1])
  /\ ReturnedErr(1)
  /\ SourceCalls = {3}
  /\ Source(last.ir) = last.calls[3][1]

\* every node but e is after the step what it was before it, and no node is
\* added
OthersUnchanged(e) ==
  /\ Len(heap') = Len(heap)
  /\ \A n \in Nodes : n # e => heap'[n] = heap[n]

\* the step is a call of SetCode: the receiver differs from what it was in
\* Code and codeSet at most, and is what the call returns
SetCodeFrame ==
  LET ir == last'.ir
  IN  /\ OthersUnchanged(ir)
      /\ heap'[ir] = [heap[ir] EXCEPT !.Code = last'.val, !.codeSet = TRUE]
      /\ heap'[ir].Msg = heap[ir].Msg
      /\ heap'[ir].Trace = heap[ir].Trace
      /\ heap'[ir].inner = heap[ir].inner
      /\ heap'[ir].tags = heap[ir].tags
      /\ last'.ret = ir

\* the step is a call of SetTag: the receiver differs from what it was in
\* the value list of the key at most
SetTagFrame ==
  LET ir  == last'.ir
      key == last'.key
      old == heap[ir].tags
      new == heap'[ir].tags
  IN  /\ OthersUnchanged(ir)
      /\ heap'[ir] = [heap[ir] EXCEPT !.tags = new]
      /\ heap'[ir].Msg = heap[ir].Msg
      /\ heap'[ir].Trace = heap[ir].Trace
      /\ heap'[ir].inner = heap[ir].inner
      /\ heap'[ir].Code = heap[ir].Code
      /\ heap'[ir].codeSet = heap[ir].codeSet
      /\ DOMAIN new = DOMAIN old \cup {key}
      /\ \A k \in DOMAIN old : k # key => new[k] = old[k]

\* C28: SetCode changes the Code and codeSet of its receiver only and returns
\* the receiver; SetTag changes the value list of its key on its receiver
\* only; the message, trace and inner of the receiver, its tags of other
\* keys and every field of every other node stay as they were.
C28_MutatorFrame ==
  [][/\ last'.op = "SetCode" => SetCodeFrame
     /\ last'.op = "SetTag" => SetTagFrame]_vars

\* SetTag has run on a node that has a trace, an inner error and a code set
\* by SetCode, and the node now holds tags on both keys
C28_Witness ==
  /\ last.op = "SetTag"
  /\ heap[last.ir].inner # NoErr
  /\ heap[last.ir].Trace # NoTrace
  /\ heap[last.ir].codeSet /\ heap[last.ir].Code # 0
  /\ DOMAIN heap[last.ir].tags = TagKeys

\* no goroutine writes a map object that another goroutine reads or writes
NoMapRace ==
  \A g, h \in Goroutines :
    g # h => MapWrites(g) \cap (MapReads(h) \cup MapWrites(h)) = {}

\* the map ir.tags points to holds the state the latest Store had to leave
PublishedComplete ==
  /\ mapHeap.tags # NilMap => mapHeap.maps[mapHeap.tags] = mapHeap.states[Len(mapHeap.states)]
  /\ mapHeap.tags = NilMap => Len(mapHeap.states) = 1

\* the tag states between the Load of a reader and its return
StatesDuring(ret) == {mapHeap.states[j] : j \in ret.since..ret.till}

\* what GetTag and ToString have returned is what they return on one of the
\* tag states that a SetTag call left
ReadersSeeComplete ==
  \A g \in Goroutines :
    gs[g].pc = "done" =>
      /\ gs[g].call.op = "GetTag" =>
           \E st \in StatesDuring(gs[g].ret) :
             gs[g].ret.got = copyValues(st, gs[g].call.key)
      /\ gs[g].call.op = "ToString" =>
           \E st \in StatesDuring(gs[g].ret) :
             \E keys \in KeySeqs(DOMAIN st) :
               gs[g].ret.got = writeTags(heap[TheNode].Msg, st, keys)

\* a map that ir.tags has pointed to is after the step what it was before it
PublishedKept ==
  \A o \in mapHeap.published : mapHeap'.maps[o] = mapHeap.maps[o]

\* C29: a map object that ir.tags has pointed to is never written again, no
\* write of a map object races with another access to it, the object ir.tags
\* points to always holds a complete tag state, and GetTag and ToString that
\* run at the same time as SetTag return what they return on the complete
\* state before or the complete state after a SetTag, never on a state in
\* between.
C29_CopyOnWrite ==
  /\ [](NoMapRace /\ PublishedComplete /\ ReadersSeeComplete)
  /\ [][PublishedKept]_vars

\* GetTag has loaded a map that holds its key, a SetTag call has stored the
\* map that replaces it, and GetTag has returned after that
C29_Witness ==
  \E g \in Goroutines :
    /\ gs[g].pc = "done" /\ gs[g].call.op = "GetTag"
    /\ ~gs[g].ret.got.isNil
    /\ gs[g].ret.since < gs[g].ret.till

\* C30: on every Error Node of every chain, the traversal NearestCode runs
\* makes no call that panics and hands back nil or eExit, eExit exactly when
\* a link has a non-zero code, so the branch panic("traverse panic") is not
\* taken by NearestCode, nor by HasAnyCode, GetCode and ClosestCode, which
\* return what NearestCode found.
C30_NoTraversePanic ==
  \A ir \in Nodes :
    IsBasicIrr(ir) =>
      LET run == NearestCodeRun(ir)
      IN  /\ \A i \in DOMAIN run.rets : run.rets[i].act = "return"
          /\ run.err \in {Nil, eExit}
          /\ run.err = eExit <=> NearestCode(ir) # 0
          /\ ~NearestCodePanics(ir)
          /\ GetCode(ir) = NearestCode(ir)
          /\ HasAnyCode(ir) <=> run.err = eExit

\* NearestCode or HasAnyCode has returned after its traversal was stopped
\* with eExit on a foreign link below two Error Nodes without a code
C30_Witness ==
  /\ last.op \in {"NearestCode", "HasAnyCode"}
  /\ NearestCodeRun(last.ir).err = eExit
  /\ Len(NearestCodeRun(last.ir).calls) >= 3
  /\ ~IsBasicIrr(NearestCodeRun(last.ir).calls[3][1])

====
